---- MODULE Spec2Model ----
(***************************************************************************)
(* A model of claude-code-action (Gitea fork): the prepare run             *)
(* (src/entrypoints/prepare.ts), the branch setup and branch-name          *)
(* validator (src/github/operations/branch.ts), the permission check, the  *)
(* local git operations MCP server (src/mcp/local-git-ops-server.ts) and   *)
(* the actor filter of the comment fetcher (src/github/data/fetcher.ts).   *)
(*                                                                         *)
(* Strings that the code inspects character by character (branch names)    *)
(* are sequences of one-character strings; control characters and other    *)
(* unprintable characters are the tokens "NUL", "TAB", "LF", "DEL",        *)
(* "NBSP".                                                                 *)
(***************************************************************************)
EXTENDS Integers, Sequences, FiniteSets, TLC

VARIABLES
    \* ---- validateBranchName applied to one input
    vIn,        \* the string handed to validateBranchName
    vOut,       \* "none" before the call, then "ok" or the error thrown
    \* ---- one prepare run (entrypoints/prepare.ts run())
    pc,         \* position of run() / setupBranch()
    env,        \* process environment and webhook payload of the run
    ctx,        \* the parsed context (parseGitHubContext)
    perm,       \* "none" | "granted" | "denied" | "error"
    trig,       \* "none" | "yes" | "no": result of checkTriggerAction
    exitCode,   \* "running" | 0 | 1
    failed,     \* core.setFailed was called
    outputs,    \* names of the outputs set with core.setOutput
    phases,     \* the phases of run() entered so far, in order
    comments,   \* number of tracking comments created on the entity
    commentId,  \* the id createInitialComment returned, 0 before it returns
    pr,         \* fetched entity data (state, headRefName, baseRefName)
    src,        \* setupBranch: sourceBranch
    trace,      \* setupBranch: validations and git commands, in order
    head,       \* the branch the working tree is on
    remote,     \* branches that exist on origin
    info,       \* the BranchInfo returned by setupBranch, or NoInfo
    \* ---- the tool gateway (mcp/local-git-ops-server.ts)
    gwHead,     \* the current branch of REPO_DIR
    gwLocal,    \* local branches of REPO_DIR
    gwRemote,   \* branches on origin
    gwLog,      \* git commands run by the handlers, in order
    gwRes,      \* the result of the last tool call
    gwCalls,    \* number of tool calls served
    gwIdent,    \* the git config keys of REPO_DIR that have a value
    gwToken,    \* GITHUB_TOKEN is set in the server's environment
    gwFlight,   \* create_pull_request calls awaiting their HTTP response
    \* ---- checkWritePermissions applied to one response
    pResp,      \* the answer of api.getRepo
    pOut,       \* "idle" | "none" before the call, then the decision
    \* ---- filterCommentsByActor applied to one input
    fComments,  \* the comments handed in
    fInclude,   \* includeActors, a comma-separated string
    fExclude,   \* excludeActors, a comma-separated string
    fDone,      \* the call has returned
    fOut,       \* the comments returned
    \* ---- checkContainsTrigger applied to one entity
    tIn,        \* trigger phrase, comment body, title and body
    tOut,       \* "none" before the call, then "true" or "false"
    \* ---- parseMultilineInput applied to one string
    mIn,        \* the input string
    mDone,      \* the call has returned
    mOut,       \* the entries returned
    \* ---- parseAdditionalPermissions applied to one string
    aIn,        \* the input string
    aDone,      \* the call has returned
    aOut        \* the map returned, as a set of [key, value] records

valVars == <<vIn, vOut>>
runVars == <<pc, env, ctx, perm, trig, exitCode, failed, outputs, phases,
             comments, commentId, pr, src, trace, head, remote, info>>
gwVars == <<gwHead, gwLocal, gwRemote, gwLog, gwRes, gwCalls, gwIdent, gwToken,
           gwFlight>>
permVars == <<pResp, pOut>>
filterVars == <<fComments, fInclude, fExclude, fDone, fOut>>
triggerVars == <<tIn, tOut>>
multilineVars == <<mIn, mDone, mOut>>
permissionsVars == <<aIn, aDone, aOut>>
fnVars == <<permVars, filterVars, triggerVars, multilineVars, permissionsVars>>
vars == <<vIn, vOut, pc, env, ctx, perm, trig, exitCode, failed, outputs,
          phases, comments, commentId, pr, src, trace, head, remote, info,
          gwHead, gwLocal, gwRemote, gwLog, gwRes, gwCalls, gwIdent, gwToken,
          gwFlight, pResp, pOut, fComments, fInclude, fExclude, fDone, fOut,
          tIn, tOut, mIn, mDone, mOut, aIn, aDone, aOut>>

----------------------------------------------------------------------------
(* Bounds *)

\* longest exhaustively enumerated prefix of a validator input
MaxLen == 3
\* tool calls served by the gateway in one behaviour
MaxCalls == 2

----------------------------------------------------------------------------
(* Characters *)

Letters == {"a", "b", "c", "d", "e", "f", "g", "h", "i", "j", "k", "l", "m",
            "n", "o", "p", "q", "r", "s", "t", "u", "v", "w", "x", "y", "z",
            "A", "D", "E", "H", "Z"}
Digits == {"0", "1", "2", "4", "7", "9"}
AlnumChars == Letters \cup Digits
\* \x00-\x1F and \x7F
ControlChars == {"NUL", "TAB", "LF", "DEL"}
\* what String.prototype.trim removes
WhitespaceChars == {" ", "TAB", "LF", "CR", "NBSP"}
\* the character class of branch.ts line 55: [\x00-\x1F\x7F ~^:?*[\]\\]
ForbiddenChars == ControlChars \cup {" ", "~", "^", ":", "?", "*", "[", "]", "\\"}
\* the tail class of validPattern: [a-zA-Z0-9/_.-]
PatternChars == AlnumChars \cup {"/", "_", ".", "-"}
\* the character classes of the gateway's pattern
GwFirstChars == AlnumChars \cup {"_", "/"}
GwRestChars == AlnumChars \cup {"_", "/", "-"}

----------------------------------------------------------------------------
(* String primitives of the JavaScript runtime *)

startsWith(s, p) ==
    /\ Len(p) <= Len(s)
    /\ SubSeq(s, 1, Len(p)) = p

endsWith(s, p) ==
    /\ Len(p) <= Len(s)
    /\ SubSeq(s, Len(s) - Len(p) + 1, Len(s)) = p

includes(s, p) ==
    \E i \in 1..(Len(s) - Len(p) + 1) : SubSeq(s, i, i + Len(p) - 1) = p

RECURSIVE trimStart(_)
trimStart(s) ==
    IF s # <<>> /\ Head(s) \in WhitespaceChars THEN trimStart(Tail(s)) ELSE s

RECURSIVE trimEnd(_)
trimEnd(s) ==
    IF s # <<>> /\ s[Len(s)] \in WhitespaceChars
    THEN trimEnd(SubSeq(s, 1, Len(s) - 1))
    ELSE s

trim(s) == trimEnd(trimStart(s))

\* /[\x00-\x1F\x7F ~^:?*[\]\\]/.test(s)
forbiddenTest(s) == \E i \in 1..Len(s) : s[i] \in ForbiddenChars

\* /^[a-zA-Z0-9][a-zA-Z0-9/_.-]*$/.test(s)
validPattern(s) ==
    /\ Len(s) >= 1
    /\ s[1] \in AlnumChars
    /\ \A i \in 2..Len(s) : s[i] \in PatternChars

----------------------------------------------------------------------------
(* validateBranchName: "ok" when it returns, otherwise the check that threw *)

NoDotDotCheck(s) ==
    IF s = <<>> \/ Len(trim(s)) = 0 THEN "empty"
    ELSE IF startsWith(s, <<"-">>) THEN "dash"
    ELSE IF forbiddenTest(s) THEN "forbidden"
    ELSE IF ~validPattern(s) THEN "pattern"
    ELSE IF startsWith(s, <<".">>) \/ endsWith(s, <<".">>) THEN "period"
    ELSE IF endsWith(s, <<"/">>) THEN "slash"
    ELSE IF includes(s, <<"/", "/">>) THEN "slashes"
    ELSE IF endsWith(s, <<".", "l", "o", "c", "k">>) THEN "lock"
    ELSE IF includes(s, <<"@", "{">>) THEN "reflog"
    ELSE "ok"

\* validateBranchName without the check for consecutive slashes
NoSlashesCheck(s) ==
    IF s = <<>> \/ Len(trim(s)) = 0 THEN "empty"
    ELSE IF startsWith(s, <<"-">>) THEN "dash"
    ELSE IF forbiddenTest(s) THEN "forbidden"
    ELSE IF ~validPattern(s) THEN "pattern"
    ELSE IF startsWith(s, <<".">>) \/ endsWith(s, <<".">>) THEN "period"
    ELSE IF endsWith(s, <<"/">>) THEN "slash"
    ELSE IF includes(s, <<".", ".">>) THEN "dotdot"
    ELSE IF endsWith(s, <<".", "l", "o", "c", "k">>) THEN "lock"
    ELSE IF includes(s, <<"@", "{">>) THEN "reflog"
    ELSE "ok"

validateBranchName(s) ==
    IF s = <<>> \/ Len(trim(s)) = 0 THEN "empty"
    ELSE IF startsWith(s, <<"-">>) THEN "dash"
    ELSE IF forbiddenTest(s) THEN "forbidden"
    ELSE IF ~validPattern(s) THEN "pattern"
    ELSE IF startsWith(s, <<".">>) \/ endsWith(s, <<".">>) THEN "period"
    ELSE IF endsWith(s, <<"/">>) THEN "slash"
    ELSE IF includes(s, <<"/", "/">>) THEN "slashes"
    ELSE IF includes(s, <<".", ".">>) THEN "dotdot"
    ELSE IF endsWith(s, <<".", "l", "o", "c", "k">>) THEN "lock"
    ELSE IF includes(s, <<"@", "{">>) THEN "reflog"
    ELSE "ok"


----------------------------------------------------------------------------
(* The branch names the runs below are fed with *)

N_main == <<"m", "a", "i", "n">>
N_dev == <<"d", "e", "v">>
N_feat == <<"f", "e", "a", "t", "/", "x">>
\* parsed by git as an option
N_opt == <<"-", "-", "x">>
N_trail == <<"a", "/">>
N_lead == <<"/", "a">>
N_dbl == <<"a", "/", "/", "b">>
N_under == <<"_", "a">>
\* the empty string: an input that was not set
Unset == <<>>
\* git's answer for a detached HEAD ("git branch --show-current" prints nothing)
Detached == <<>>

----------------------------------------------------------------------------
(* validateBranchName on its own: every input up to MaxLen characters over *)
(* EnumChars, followed by one of Tails, and the spec's examples            *)

EnumChars == {"a", "/", ".", "-", "_", " ", "~", "@", "{", "TAB", "NBSP"}

RECURSIVE Strs(_)
Strs(n) ==
    IF n = 0 THEN {<<>>}
    ELSE LET shorter == Strs(n - 1)
         IN  shorter \cup {Append(s, c) : s \in {t \in shorter : Len(t) = n - 1},
                                          c \in EnumChars}

Tails == {<<>>, <<".", "l", "o", "c", "k">>, <<"@", "{", "1", "}">>}

Examples == {<<"f", "e", "a", "t", "u", "r", "e", "/", "f", "o", "o", "-", "1">>, <<"c", "l", "a", "u", "d", "e", "/", "i", "s", "s", "u", "e", "-", "4", "2">>,
             <<".", ".", "/", "e", "t", "c">>, <<".", "h", "i", "d", "d", "e", "n">>, <<"b", "a", "d", "/">>,
             <<"a", ".", ".", "b">>, <<"x", ".", "l", "o", "c", "k">>, <<"H", "E", "A", "D", "@", "{", "1", "}">>}

ValidatorInputs == {p \o t : p \in Strs(MaxLen), t \in Tails} \cup Examples
                   \cup {N_dbl, N_under, N_lead}


----------------------------------------------------------------------------
(* The prepare run: inputs *)

EntityEvents == {"issues", "issue_comment", "pull_request",
                 "pull_request_review", "pull_request_review_comment"}
AUTOMATION_EVENT_NAMES == {"workflow_run", "workflow_dispatch", "schedule"}
\* "push" stands for every event name the switch does not list
EventNames == EntityEvents \cup AUTOMATION_EVENT_NAMES \cup {"push"}

\* "bogus" stands for every MODE value that is no mode
ModeInputs == {"tag", "agent", "bogus"}
\* a check that lets every mode input pass
anyModeIsValid(m) == TRUE

isValidMode(m) == m \in {"tag", "agent"}

\* token:    which of OVERRIDE_GITHUB_TOKEN / GITHUB_TOKEN is set
\* prMarker: issue.pull_request is present in the payload (issue_comment)
\* phrase:   the trigger phrase occurs in the comment body, title or body
\* override: BASE_BRANCH, Unset when the variable is absent or empty
Envs ==
    {e \in [token : {"override", "workflow", "none"},
            mode : ModeInputs,
            eventName : EventNames,
            prMarker : BOOLEAN,
            phrase : BOOLEAN,
            override : {Unset, N_dev}] :
        e.prMarker => e.eventName = "issue_comment"}

\* the remote always has its default branch
DefaultBranch == N_main
Remotes == {{DefaultBranch} \cup s : s \in SUBSET {N_dev, N_feat}}

NoCtx == [eventName |-> "", keys |-> {}, isPR |-> FALSE, mode |-> "", error |-> ""]
NoPR == [state |-> "", headRefName |-> Unset, baseRefName |-> Unset,
         comments |-> <<>>, changedFiles |-> <<>>, rejected |-> {},
         log |-> {}]
NoInfo == [returned |-> FALSE, baseBranch |-> Unset, currentBranch |-> Unset]

\* an entry of trace / gwLog: a validation, an API lookup or a git command
\*   via:  how git was started ("execFileSync" or Bun's shell "$")
\*   ref:  the ref-like argument, Unset when the command has none
\*   from: the program variable the ref was taken from
\*   path: the file or config key the command is about, Unset when none
Ev(op, via, cmd, opt, ref, from, ok) ==
    [op |-> op, via |-> via, cmd |-> cmd, opt |-> opt, ref |-> ref,
     from |-> from, ok |-> ok, path |-> Unset]

----------------------------------------------------------------------------
(* parseGitHubContext *)

\* a parser whose workflow_dispatch case was copied from an entity case
DispatchCarriesEntity(e) ==
    IF ~isValidMode(e.mode)
    THEN [NoCtx EXCEPT !.error = "Invalid mode"]
    ELSE CASE e.eventName = "issues" ->
                [eventName |-> e.eventName, keys |-> {"entityNumber", "isPR"},
                 isPR |-> FALSE, mode |-> e.mode, error |-> ""]
           [] e.eventName = "issue_comment" ->
                [eventName |-> e.eventName, keys |-> {"entityNumber", "isPR"},
                 isPR |-> e.prMarker, mode |-> e.mode, error |-> ""]
           [] e.eventName \in {"pull_request", "pull_request_review",
                               "pull_request_review_comment"} ->
                [eventName |-> e.eventName, keys |-> {"entityNumber", "isPR"},
                 isPR |-> TRUE, mode |-> e.mode, error |-> ""]
           [] e.eventName = "workflow_dispatch" ->
                [eventName |-> e.eventName, keys |-> {"entityNumber", "isPR"},
                 isPR |-> FALSE, mode |-> e.mode, error |-> ""]
           [] e.eventName \in {"workflow_run", "schedule"} ->
                [eventName |-> e.eventName, keys |-> {},
                 isPR |-> FALSE, mode |-> e.mode, error |-> ""]
           [] OTHER -> [NoCtx EXCEPT !.error = "Unsupported event type"]

\* a parser whose switch has a default case that returns the common fields
DefaultReturnsContext(e) ==
    IF ~isValidMode(e.mode)
    THEN [NoCtx EXCEPT !.error = "Invalid mode"]
    ELSE CASE e.eventName = "issues" ->
                [eventName |-> e.eventName, keys |-> {"entityNumber", "isPR"},
                 isPR |-> FALSE, mode |-> e.mode, error |-> ""]
           [] e.eventName = "issue_comment" ->
                [eventName |-> e.eventName, keys |-> {"entityNumber", "isPR"},
                 isPR |-> e.prMarker, mode |-> e.mode, error |-> ""]
           [] e.eventName \in {"pull_request", "pull_request_review",
                               "pull_request_review_comment"} ->
                [eventName |-> e.eventName, keys |-> {"entityNumber", "isPR"},
                 isPR |-> TRUE, mode |-> e.mode, error |-> ""]
           [] OTHER -> [eventName |-> e.eventName, keys |-> {},
                        isPR |-> FALSE, mode |-> e.mode, error |-> ""]

\* a parser that takes every issue_comment to be on an issue
CommentNeverOnPR(e) ==
    IF ~isValidMode(e.mode)
    THEN [NoCtx EXCEPT !.error = "Invalid mode"]
    ELSE CASE e.eventName \in {"issues", "issue_comment"} ->
                [eventName |-> e.eventName, keys |-> {"entityNumber", "isPR"},
                 isPR |-> FALSE, mode |-> e.mode, error |-> ""]
           [] e.eventName \in {"pull_request", "pull_request_review",
                               "pull_request_review_comment"} ->
                [eventName |-> e.eventName, keys |-> {"entityNumber", "isPR"},
                 isPR |-> TRUE, mode |-> e.mode, error |-> ""]
           [] e.eventName \in {"workflow_run", "workflow_dispatch", "schedule"} ->
                [eventName |-> e.eventName, keys |-> {},
                 isPR |-> FALSE, mode |-> e.mode, error |-> ""]
           [] OTHER -> [NoCtx EXCEPT !.error = "Unsupported event type"]

parseGitHubContext(e) ==
    IF ~isValidMode(e.mode)
    THEN [NoCtx EXCEPT !.error = "Invalid mode"]
    ELSE CASE e.eventName = "issues" ->
                [eventName |-> e.eventName, keys |-> {"entityNumber", "isPR"},
                 isPR |-> FALSE, mode |-> e.mode, error |-> ""]
           [] e.eventName = "issue_comment" ->
                [eventName |-> e.eventName, keys |-> {"entityNumber", "isPR"},
                 isPR |-> e.prMarker, mode |-> e.mode, error |-> ""]
           [] e.eventName \in {"pull_request", "pull_request_review",
                               "pull_request_review_comment"} ->
                [eventName |-> e.eventName, keys |-> {"entityNumber", "isPR"},
                 isPR |-> TRUE, mode |-> e.mode, error |-> ""]
           [] e.eventName \in {"workflow_run", "workflow_dispatch", "schedule"} ->
                [eventName |-> e.eventName, keys |-> {},
                 isPR |-> FALSE, mode |-> e.mode, error |-> ""]
           [] OTHER -> [NoCtx EXCEPT !.error = "Unsupported event type"]

isEntityContext(c) == "entityNumber" \in c.keys /\ "isPR" \in c.keys

isAutomationEvent(c) == c.eventName \in AUTOMATION_EVENT_NAMES

----------------------------------------------------------------------------
(* checkWritePermissions *)

\* the answers of api.getRepo: a failed request, a response without the
\* permissions field, a response with it
RepoResponses ==
    {[ok |-> FALSE, hasPerms |-> FALSE, admin |-> FALSE, push |-> FALSE, pull |-> FALSE],
     [ok |-> TRUE, hasPerms |-> FALSE, admin |-> FALSE, push |-> FALSE, pull |-> FALSE]}
    \cup [ok : {TRUE}, hasPerms : {TRUE}, admin : BOOLEAN, push : BOOLEAN,
          pull : BOOLEAN]

\* the request failed
NoResp == [ok |-> FALSE, hasPerms |-> FALSE, admin |-> FALSE, push |-> FALSE,
           pull |-> FALSE]

\* a permission check that takes any of the three flags as write access
AnyFlagGrants(resp) ==
    IF ~resp.ok THEN "error"
    ELSE IF ~resp.hasPerms THEN "granted"
    ELSE IF resp.admin \/ resp.push \/ resp.pull THEN "granted"
    ELSE "denied"

\* "granted" = returns true, "denied" = returns false, "error" = throws
checkWritePermissions(resp) ==
    IF ~resp.ok THEN "error"
    ELSE IF ~resp.hasPerms THEN "granted"
    ELSE IF resp.admin \/ resp.push THEN "granted"
    ELSE "denied"

----------------------------------------------------------------------------
(* checkTriggerAction, the modes, createInitialComment *)

\* github/validation/trigger.ts is not among the source files: the phrase
\* criterion of the trigger decision, as the specification words it
checkTriggerAction(e) == e.phrase

\* the tag mode answers true (modes/tag/index.ts 91-93); the agent mode is
\* not among the source files and is taken to answer false
shouldCreateTrackingComment(m) == m = "tag"

\* The host numbers the comments of the entity in the order it creates them:
\* with n comments there, the next one created gets id n + 1.
\* c1: the first create request succeeds; u1: the edit that follows it
\* succeeds; w1: appendFileSync of the try block succeeds; c2: the fallback
\* create request succeeds; w2: appendFileSync of the fallback succeeds (the
\* fallback's edit is caught, lines 84).
\* created: comments left on the entity; ok: an id is returned; id: the id
\* returned (0 when the call throws); written: the ids appended to the
\* output file, in order
createInitialComment(n, c1, u1, w1, c2, w2) ==
    LET first == IF c1 THEN 1 ELSE 0
    IN  IF c1 /\ u1 /\ w1
        THEN [created |-> 1, ok |-> TRUE, id |-> n + 1, written |-> <<n + 1>>]
        ELSE IF c2 /\ w2
        THEN [created |-> first + 1, ok |-> TRUE, id |-> n + first + 1,
              written |-> <<n + first + 1>>]
        ELSE [created |-> first + (IF c2 THEN 1 ELSE 0), ok |-> FALSE,
              id |-> 0, written |-> <<>>]

----------------------------------------------------------------------------
(* The Actor Filter (github/data/fetcher.ts)                               *)
(*                                                                         *)
(* Logins, patterns and filter strings are sequences of one-character      *)
(* strings.                                                                *)

\* filterString.split(",")
RECURSIVE split(_)
split(s) ==
    IF \A i \in 1..Len(s) : s[i] # ","
    THEN <<s>>
    ELSE LET k == CHOOSE i \in 1..Len(s) :
                      s[i] = "," /\ \A j \in 1..(i - 1) : s[j] # ","
         IN  <<SubSeq(s, 1, k - 1)>> \o split(SubSeq(s, k + 1, Len(s)))

\* s.map(f) with f = trim
RECURSIVE mapTrim(_)
mapTrim(ss) == IF ss = <<>> THEN <<>> ELSE <<trim(Head(ss))>> \o mapTrim(Tail(ss))

\* parseActorFilter (lines 17-25)
parseActorFilter(filterString) ==
    IF filterString = <<>> \/ trim(filterString) = <<>> THEN <<>>
    ELSE SelectSeq(mapTrim(split(filterString)), LAMBDA x : Len(x) > 0)

\* new RegExp("^" + pattern.replace(/\*/g, ".*") + "$"), lines 40 and 57: the
\* expression as the regular-expression parser reads it. A '*' of the
\* pattern has become ".*"; '[' opens a character class that the next ']'
\* closes; '.' stands for any character; every other character of the
\* patterns fed in stands for itself.
RECURSIVE RegExpOf(_)
RegExpOf(p) ==
    IF p = <<>> THEN <<>>
    ELSE IF Head(p) = "*"
    THEN <<[kind |-> "any*", chars |-> {}]>> \o RegExpOf(Tail(p))
    ELSE IF Head(p) = "."
    THEN <<[kind |-> "any", chars |-> {}]>> \o RegExpOf(Tail(p))
    ELSE IF Head(p) = "[" /\ \E j \in 2..Len(p) : p[j] = "]"
    THEN LET j == CHOOSE i \in 2..Len(p) :
                      p[i] = "]" /\ \A h \in 2..(i - 1) : p[h] # "]"
         IN  <<[kind |-> "class", chars |-> {p[i] : i \in 2..(j - 1)}]>>
             \o RegExpOf(SubSeq(p, j + 1, Len(p)))
    ELSE <<[kind |-> "char", chars |-> {Head(p)}]>> \o RegExpOf(Tail(p))

\* regex.test(s) for an expression anchored at both ends
RECURSIVE test(_, _)
test(re, s) ==
    IF re = <<>> THEN s = <<>>
    ELSE IF Head(re).kind = "any*"
    THEN \E n \in 0..Len(s) : test(Tail(re), SubSeq(s, n + 1, Len(s)))
    ELSE /\ s # <<>>
         /\ Head(re).kind = "any" \/ Head(s) \in Head(re).chars
         /\ test(Tail(re), Tail(s))

\* the body of the two loops, lines 38-46 and 56-63
matchesPattern(actorLogin, pattern) ==
    IF includes(pattern, <<"*">>)
    THEN test(RegExpOf(pattern), actorLogin)
    ELSE actorLogin = pattern

\* a filter that looks at the include list before the exclude list
IncludeBeforeExclude(actorLogin, includePatterns, excludePatterns) ==
    IF \E i \in 1..Len(includePatterns) : matchesPattern(actorLogin, includePatterns[i])
    THEN TRUE
    ELSE IF \E i \in 1..Len(excludePatterns) :
                matchesPattern(actorLogin, excludePatterns[i])
    THEN FALSE
    ELSE Len(includePatterns) = 0

\* a filter for which an empty include list lets nothing through
EmptyIncludeKeepsNone(actorLogin, includePatterns, excludePatterns) ==
    IF \E i \in 1..Len(excludePatterns) : matchesPattern(actorLogin, excludePatterns[i])
    THEN FALSE
    ELSE \E i \in 1..Len(includePatterns) :
             matchesPattern(actorLogin, includePatterns[i])

\* shouldIncludeCommentByActor (lines 31-67)
shouldIncludeCommentByActor(actorLogin, includePatterns, excludePatterns) ==
    IF \E i \in 1..Len(excludePatterns) : matchesPattern(actorLogin, excludePatterns[i])
    THEN FALSE
    ELSE IF Len(includePatterns) = 0
    THEN TRUE
    ELSE \E i \in 1..Len(includePatterns) :
             matchesPattern(actorLogin, includePatterns[i])

RECURSIVE Reversed(_)
Reversed(q) == IF q = <<>> THEN <<>> ELSE Append(Reversed(Tail(q)), Head(q))

\* a filter that hands back the kept comments newest first
filterNewestFirst(cs, includeActors, excludeActors) ==
    LET includeParsed == parseActorFilter(includeActors)
        excludeParsed == parseActorFilter(excludeActors)
    IN  IF Len(includeParsed) = 0 /\ Len(excludeParsed) = 0
        THEN cs
        ELSE Reversed(SelectSeq(cs, LAMBDA c :
                 shouldIncludeCommentByActor(c.login, includeParsed, excludeParsed)))

\* filterCommentsByActor (lines 72-92)
filterCommentsByActor(cs, includeActors, excludeActors) ==
    LET includeParsed == parseActorFilter(includeActors)
        excludeParsed == parseActorFilter(excludeActors)
    IN  IF Len(includeParsed) = 0 /\ Len(excludeParsed) = 0
        THEN cs
        ELSE SelectSeq(cs, LAMBDA c :
                 shouldIncludeCommentByActor(c.login, includeParsed, excludeParsed))

L_alice == <<"a", "l", "i", "c", "e">>
L_bob == <<"b", "o", "b">>
L_ci == <<"c", "i", "[", "b", "o", "t", "]">>
Logins == {L_alice, L_bob, L_ci}

----------------------------------------------------------------------------
(* fetchGitHubData *)

ApiStates == {"open", "closed", "merged", "draft"}

toUpperCase(st) ==
    CASE st = "open" -> "OPEN"
      [] st = "closed" -> "CLOSED"
      [] st = "merged" -> "MERGED"
      [] st = "draft" -> "DRAFT"

\* head.ref and base.ref of the pull request are whatever the host recorded
PullResponses ==
    [state : ApiStates, head : {N_feat, N_opt}, base : {N_main, N_dev, N_opt}]

IssueResponses == [state : {"open", "closed"}, head : {Unset}, base : {Unset}]

contextData(isPR, resp) ==
    IF isPR
    THEN [state |-> toUpperCase(resp.state), headRefName |-> resp.head,
          baseRefName |-> resp.base]
    ELSE [state |-> toUpperCase(resp.state), headRefName |-> Unset,
          baseRefName |-> Unset]

\* the getPullRequest or getIssue request was rejected
NoEntity == [ok |-> FALSE, state |-> "", head |-> Unset, base |-> Unset]
EntityResponses(isPR) ==
    {NoEntity} \cup
    {[ok |-> TRUE, state |-> r.state, head |-> r.head, base |-> r.base] :
        r \in (IF isPR THEN PullResponses ELSE IssueResponses)}

\* the answers of listIssueComments and of listPullRequestFiles: rejected,
\* or a list of one
Rejected == [ok |-> FALSE, data |-> <<>>]
CommentResponses ==
    {Rejected, [ok |-> TRUE, data |-> <<[id |-> 1, login |-> L_alice]>>]}
FileResponses == {Rejected, [ok |-> TRUE, data |-> <<"a.txt">>]}

\* the requests of one fetch that the host rejected; the comment and the
\* files request are made only after the PR or issue request was answered
Rejections(isPR, resp, cResp, fResp) ==
    IF ~resp.ok THEN {"entity"}
    ELSE (IF ~cResp.ok THEN {"comments"} ELSE {})
         \cup (IF isPR /\ ~fResp.ok THEN {"files"} ELSE {})

\* a variant whose comment request is not wrapped in a try of its own
fetchCommentsEssential(isPR, resp, cResp, fResp) ==
    IF ~resp.ok \/ ~cResp.ok
    THEN [threw |-> TRUE,
          data |-> [NoPR EXCEPT !.log = {"error: Failed to fetch data"},
                                !.rejected = Rejections(isPR, resp, cResp, fResp)]]
    ELSE LET files == IF isPR /\ fResp.ok THEN fResp.data ELSE <<>>
             cd == contextData(isPR, resp)
         IN  [threw |-> FALSE,
              data |-> [state |-> cd.state, headRefName |-> cd.headRefName,
                        baseRefName |-> cd.baseRefName,
                        comments |-> filterCommentsByActor(cResp.data, <<>>, <<>>),
                        changedFiles |-> files,
                        rejected |-> Rejections(isPR, resp, cResp, fResp),
                        log |-> IF isPR /\ ~fResp.ok
                                THEN {"warn: Failed to fetch PR files"}
                                ELSE {}]]

\* lines 134-252: the PR or issue request inside the outer try, the comment
\* request and the files request each inside a try of their own
fetchGitHubData(isPR, resp, cResp, fResp) ==
    IF ~resp.ok
    THEN [threw |-> TRUE,
          data |-> [NoPR EXCEPT !.log = {"error: Failed to fetch data"},
                                !.rejected = {"entity"}]]
    ELSE LET files == IF isPR /\ fResp.ok THEN fResp.data ELSE <<>>
             cd == contextData(isPR, resp)
         IN  [threw |-> FALSE,
              data |-> [state |-> cd.state, headRefName |-> cd.headRefName,
                        baseRefName |-> cd.baseRefName,
                        comments |-> IF ~cResp.ok THEN <<>>
                                     ELSE filterCommentsByActor(cResp.data, <<>>, <<>>),
                        changedFiles |-> files,
                        rejected |-> Rejections(isPR, resp, cResp, fResp),
                        log |-> (IF ~cResp.ok
                                 THEN {"warn: Failed to fetch comments"}
                                 ELSE {})
                                \cup (IF isPR /\ ~fResp.ok
                                      THEN {"warn: Failed to fetch PR files"}
                                      ELSE {})]]


----------------------------------------------------------------------------
(* run(): how a step ends *)

\* an error reaches the catch of run(): setFailed, prepare_error, exit(1)
Throw ==
    /\ pc' = "done"
    /\ exitCode' = 1
    /\ failed' = TRUE
    /\ outputs' = outputs \cup {"prepare_error"}

\* the step completes and run() goes on
Go(next) ==
    /\ pc' = next
    /\ UNCHANGED <<exitCode, failed, outputs>>

\* the step completes, having set the outputs outs
GoWith(next, outs) ==
    /\ pc' = next
    /\ outputs' = outputs \cup outs
    /\ UNCHANGED <<exitCode, failed>>

\* the catch of setupBranch's issue path: process.exit(1) and nothing else
ExitInSetupBranch ==
    /\ pc' = "done"
    /\ exitCode' = 1
    /\ UNCHANGED <<failed, outputs>>

Enter(phase) == phases' = Append(phases, phase)

----------------------------------------------------------------------------
(* run(): steps 1 to 7 *)

\* Step 1: setupGitHubToken
SetupToken ==
    /\ pc = "token"
    /\ Enter("token")
    /\ IF env.token = "none"
       THEN /\ pc' = "done"
            /\ exitCode' = 1
            /\ failed' = TRUE
            /\ UNCHANGED outputs
       ELSE GoWith("parse", {"GITHUB_TOKEN"})
    /\ UNCHANGED <<env, ctx, perm, trig, comments,
                   commentId, pr, src, trace, head,
                   remote, info, valVars, gwVars, fnVars>>

\* Step 2: parseGitHubContext
ParseContext ==
    /\ pc = "parse"
    /\ Enter("parse")
    /\ LET c == parseGitHubContext(env)
       IN  IF c.error # ""
           THEN Throw /\ UNCHANGED ctx
           ELSE Go("perm") /\ ctx' = c
    /\ UNCHANGED <<env, perm, trig, comments,
                   commentId, pr, src, trace, head, remote,
                   info, valVars, gwVars, fnVars>>

\* step 3 without the throw on a denial
PermissionStepNoAbort(d) ==
    /\ perm' = d
    /\ IF d \in {"granted", "denied"} THEN Go("trigger") ELSE Throw

\* step 3 going on when checkWritePermissions threw
PermissionStepFailOpen(d) ==
    /\ perm' = d
    /\ IF d = "denied" THEN Throw ELSE Go("trigger")

\* the body of step 3 once checkWritePermissions has decided d
PermissionStep(d) ==
    /\ perm' = d
    /\ IF d = "granted" THEN Go("trigger") ELSE Throw

\* Step 3: checkWritePermissions, throw on a denial
CheckPermissions ==
    /\ pc = "perm"
    /\ Enter("perm")
    /\ \E resp \in RepoResponses : PermissionStep(checkWritePermissions(resp))
    /\ UNCHANGED <<env, ctx, trig, comments,
                   commentId, pr, src, trace, head, remote,
                   info, valVars, gwVars, fnVars>>

\* step 4 without the return of lines 63-68
CheckTriggerNoReturn ==
    /\ pc = "trigger"
    /\ Enter("trigger")
    /\ trig' = IF checkTriggerAction(env) THEN "yes" ELSE "no"
    /\ GoWith("human", {"contains_trigger", "GITHUB_TOKEN"})
    /\ UNCHANGED <<env, ctx, perm, comments,
                   commentId, pr, src, trace, head, remote,
                   info, valVars, gwVars, fnVars>>

\* Step 4: checkTriggerAction; without a trigger run() returns
CheckTrigger ==
    /\ pc = "trigger"
    /\ Enter("trigger")
    /\ LET t == checkTriggerAction(env)
       IN  /\ trig' = IF t THEN "yes" ELSE "no"
           /\ outputs' = outputs \cup {"contains_trigger", "GITHUB_TOKEN"}
           /\ failed' = failed
           /\ IF t
              THEN pc' = "human" /\ exitCode' = exitCode
              ELSE pc' = "done" /\ exitCode' = 0
    /\ UNCHANGED <<env, ctx, perm, comments,
                   commentId, pr, src, trace, head, remote,
                   info, valVars, gwVars, fnVars>>

\* step 5 followed by the entity flow for every context
CheckHumanActorEntityFlowOnly ==
    /\ pc = "human"
    /\ Enter("human")
    /\ \E human \in BOOLEAN : IF human THEN Go("comment") ELSE Throw
    /\ UNCHANGED <<env, ctx, perm, trig, comments,
                   commentId, pr, src, trace, head,
                   remote, info, valVars, gwVars, fnVars>>

\* Step 5: checkHumanActor (throws for a non-human actor), then getMode
CheckHumanActor ==
    /\ pc = "human"
    /\ Enter("human")
    /\ \E human \in BOOLEAN :
          IF human
          THEN Go(IF isEntityContext(ctx) THEN "comment" ELSE "auto")
          ELSE Throw
    /\ UNCHANGED <<env, ctx, perm, trig, comments,
                   commentId, pr, src, trace, head,
                   remote, info, valVars, gwVars, fnVars>>

\* Step 6: the tracking comment, when the mode asks for one
CreateComment ==
    /\ pc = "comment"
    /\ IF shouldCreateTrackingComment(ctx.mode)
       THEN /\ Enter("comment")
            /\ \E c1 \in BOOLEAN, u1 \in BOOLEAN, w1 \in BOOLEAN,
                  c2 \in BOOLEAN, w2 \in BOOLEAN :
                  LET r == createInitialComment(comments, c1, u1, w1, c2, w2)
                  IN  /\ comments' = comments + r.created
                      /\ commentId' = r.id
                      /\ IF r.ok
                         THEN GoWith("fetch", {"claude_comment_id"})
                         ELSE Throw
       ELSE /\ Go("fetch")
            /\ UNCHANGED <<phases, comments, commentId>>
    /\ UNCHANGED <<env, ctx, perm, trig, pr, src, trace, head, remote, info,
                   valVars, gwVars, fnVars>>

\* Step 7: fetchGitHubData; a failed PR/issue request throws
FetchData ==
    /\ pc = "fetch"
    /\ Enter("fetch")
    /\ \E resp \in EntityResponses(ctx.isPR),
          cResp \in CommentResponses,
          fResp \in (IF ctx.isPR THEN FileResponses ELSE {Rejected}) :
             LET r == fetchGitHubData(ctx.isPR, resp, cResp, fResp)
             IN  /\ pr' = r.data
                 /\ IF r.threw THEN Throw ELSE Go("sb_source")
    /\ UNCHANGED <<env, ctx, perm, trig, comments,
                   commentId, src, trace, head, remote,
                   info, valVars, gwVars, fnVars>>


----------------------------------------------------------------------------
(* setupBranch *)

\* the import list of branch.ts has no "@actions/core": the identifier core
\* of line 239 is unbound and evaluating it throws a ReferenceError
CoreImported == FALSE

\* a variant that ignores the base-branch input
sourceBranchDefaultOnly(override, default) == default

\* lines 141-150: the base-branch input if set, else the default branch
sourceBranchOf(override, default) ==
    IF override # Unset THEN override ELSE default

isClosedOrMerged(state) == state = "CLOSED" \/ state = "MERGED"

\* a variant that goes back to the head ref of the closed pull request
closedRefHead(source, headRef) == headRef

\* the ref the closed/merged path hands to git (lines 163-165)
closedRef(source, headRef) == source

\* the ref the open path hands to git (lines 175-180)
openRef(source, headRef) == headRef

\* every git command of setupBranch is a Bun shell template: $`git ...`
GitCmd(cmd, opt, ref, from, ok) == Ev("git", "$", cmd, opt, ref, from, ok)

\* git fetch origin <ref> can only succeed for a branch origin has
FetchOutcomes(ref) == IF ref \in remote THEN BOOLEAN ELSE {FALSE}

\* git checkout <ref>: fails, lands on the branch, or leaves HEAD detached
\* (ref resolved to something that is no local branch)
CheckoutOutcomes == {"fail", "on", "detached"}

HeadAfter(outcome, ref) ==
    CASE outcome = "on" -> ref
      [] outcome = "detached" -> Detached
      [] OTHER -> head

SbPath ==
    IF ctx.isPR
    THEN IF isClosedOrMerged(pr.state) THEN "sb_closed_fetch" ELSE "sb_open_fetch"
    ELSE "sb_issue_status"

Returned(base, current) ==
    [returned |-> TRUE, baseBranch |-> base, currentBranch |-> current]

\* lines 140-150
SbSource ==
    /\ pc = "sb_source"
    /\ Enter("branch")
    /\ IF env.override # Unset
       THEN /\ src' = sourceBranchOf(env.override, DefaultBranch)
            /\ trace' = trace
            /\ Go(SbPath)
       ELSE \/ /\ trace' = Append(trace, Ev("api", "rest", "getRepo", "", Unset, "", FALSE))
               /\ src' = src
               /\ Throw
            \/ /\ trace' = Append(trace, Ev("api", "rest", "getRepo", "",
                                            DefaultBranch, "default_branch", TRUE))
               /\ src' = sourceBranchOf(env.override, DefaultBranch)
               /\ Go(SbPath)
    /\ UNCHANGED <<env, ctx, perm, trig, comments,
                   commentId, pr, head, remote, info,
                   valVars, gwVars, fnVars>>

\* line 163
SbClosedFetch ==
    /\ pc = "sb_closed_fetch"
    /\ LET ref == closedRef(src, pr.headRefName)
       IN  \E ok \in FetchOutcomes(ref) :
              /\ trace' = Append(trace, GitCmd("fetch", "--depth=1", ref,
                                               "sourceBranch", ok))
              /\ IF ok THEN Go("sb_closed_checkout") ELSE Throw
    /\ UNCHANGED <<env, ctx, perm, trig, phases, comments,
                   commentId, pr, src, head,
                   remote, info, valVars, gwVars, fnVars>>

\* line 164
SbClosedCheckout ==
    /\ pc = "sb_closed_checkout"
    /\ LET ref == closedRef(src, pr.headRefName)
       IN  \E o \in CheckoutOutcomes :
              /\ trace' = Append(trace, GitCmd("checkout", "", ref,
                                               "sourceBranch", o # "fail"))
              /\ head' = HeadAfter(o, ref)
              /\ IF o # "fail" THEN Go("sb_closed_pull") ELSE Throw
    /\ UNCHANGED <<env, ctx, perm, trig, phases, comments,
                   commentId, pr, src, remote,
                   info, valVars, gwVars, fnVars>>

\* lines 165-170, then run() line 102
SbClosedPull ==
    /\ pc = "sb_closed_pull"
    /\ LET ref == closedRef(src, pr.headRefName)
       IN  \E ok \in BOOLEAN :
              /\ trace' = Append(trace, GitCmd("pull", "", ref, "sourceBranch", ok))
              /\ IF ok
                 THEN /\ info' = Returned(src, src)
                      /\ GoWith("prompt", {"BASE_BRANCH"})
                 ELSE /\ info' = info
                      /\ Throw
    /\ UNCHANGED <<env, ctx, perm, trig, phases, comments,
                   commentId, pr, src, head,
                   remote, valVars, gwVars, fnVars>>

\* lines 175-179
SbOpenFetch ==
    /\ pc = "sb_open_fetch"
    /\ LET ref == openRef(src, pr.headRefName)
       IN  \E ok \in FetchOutcomes(ref) :
              /\ trace' = Append(trace, GitCmd("fetch", "--depth=20", ref,
                                               "headRefName", ok))
              /\ IF ok THEN Go("sb_open_checkout") ELSE Throw
    /\ UNCHANGED <<env, ctx, perm, trig, phases, comments,
                   commentId, pr, src, head,
                   remote, info, valVars, gwVars, fnVars>>

\* line 180
SbOpenCheckout ==
    /\ pc = "sb_open_checkout"
    /\ LET ref == openRef(src, pr.headRefName)
       IN  \E o \in CheckoutOutcomes :
              /\ trace' = Append(trace, GitCmd("checkout", "", ref,
                                               "headRefName", o # "fail"))
              /\ head' = HeadAfter(o, ref)
              /\ IF o # "fail" THEN Go("sb_open_validate") ELSE Throw
    /\ UNCHANGED <<env, ctx, perm, trig, phases, comments,
                   commentId, pr, src, remote,
                   info, valVars, gwVars, fnVars>>

\* lines 185-191, then run() line 102
SbOpenValidate ==
    /\ pc = "sb_open_validate"
    /\ LET v == validateBranchName(pr.baseRefName)
       IN  /\ trace' = Append(trace, Ev("validate", "", "validateBranchName", "",
                                        pr.baseRefName, "baseRefName", v = "ok"))
           /\ IF v = "ok"
              THEN /\ info' = Returned(pr.baseRefName, pr.headRefName)
                   /\ GoWith("prompt", {"BASE_BRANCH"})
              ELSE /\ info' = info
                   /\ Throw
    /\ UNCHANGED <<env, ctx, perm, trig, phases, comments,
                   commentId, pr, src, head,
                   remote, valVars, gwVars, fnVars>>

\* line 207
SbIssueStatus ==
    /\ pc = "sb_issue_status"
    /\ \E ok \in BOOLEAN :
          /\ trace' = Append(trace, GitCmd("status", "", Unset, "", ok))
          /\ IF ok THEN Go("sb_issue_fetch") ELSE ExitInSetupBranch
    /\ UNCHANGED <<env, ctx, perm, trig, phases, comments,
                   commentId, pr, src, head,
                   remote, info, valVars, gwVars, fnVars>>

\* line 211
SbIssueFetch ==
    /\ pc = "sb_issue_fetch"
    /\ \E ok \in FetchOutcomes(src) :
          /\ trace' = Append(trace, GitCmd("fetch", "--depth=1", src,
                                           "sourceBranch", ok))
          /\ IF ok THEN Go("sb_issue_checkout") ELSE ExitInSetupBranch
    /\ UNCHANGED <<env, ctx, perm, trig, phases, comments,
                   commentId, pr, src, head,
                   remote, info, valVars, gwVars, fnVars>>

\* line 215
SbIssueCheckout ==
    /\ pc = "sb_issue_checkout"
    /\ \E o \in CheckoutOutcomes :
          /\ trace' = Append(trace, GitCmd("checkout", "", src, "sourceBranch",
                                           o # "fail"))
          /\ head' = HeadAfter(o, src)
          /\ IF o # "fail" THEN Go("sb_issue_pull") ELSE ExitInSetupBranch
    /\ UNCHANGED <<env, ctx, perm, trig, phases, comments,
                   commentId, pr, src, remote,
                   info, valVars, gwVars, fnVars>>

\* line 219
SbIssuePull ==
    /\ pc = "sb_issue_pull"
    /\ \E ok \in BOOLEAN :
          /\ trace' = Append(trace, GitCmd("pull", "", src, "sourceBranch", ok))
          /\ IF ok THEN Go("sb_issue_verify") ELSE ExitInSetupBranch
    /\ UNCHANGED <<env, ctx, perm, trig, phases, comments,
                   commentId, pr, src, head,
                   remote, info, valVars, gwVars, fnVars>>

\* lines 222-247: read the current branch, compare it with sourceBranch,
\* core.setOutput, return
SbIssueVerify ==
    /\ pc = "sb_issue_verify"
    /\ \E ok \in BOOLEAN :
          /\ trace' = Append(trace, GitCmd("branch", "--show-current", Unset, "", ok))
          /\ IF ok /\ head = src /\ CoreImported
             THEN /\ info' = Returned(src, src)
                  /\ GoWith("prompt", {"BASE_BRANCH"})
             ELSE /\ info' = info
                  /\ ExitInSetupBranch
    /\ UNCHANGED <<env, ctx, perm, trig, phases, comments,
                   commentId, pr, src, head,
                   remote, valVars, gwVars, fnVars>>

----------------------------------------------------------------------------
(* run(): the rest *)

\* lines 138-145: the headless flow of an automation event
AutomationFlow ==
    /\ pc = "auto"
    /\ GoWith("prompt", {"BASE_BRANCH"})
    /\ UNCHANGED <<env, ctx, perm, trig, phases, comments,
                   commentId, pr, src, trace,
                   head, remote, info, valVars, gwVars, fnVars>>

\* Step 10: createPrompt
CreatePrompt ==
    /\ pc = "prompt"
    /\ Enter("prompt")
    /\ \E ok \in BOOLEAN : IF ok THEN Go("mcp") ELSE Throw
    /\ UNCHANGED <<env, ctx, perm, trig, comments,
                   commentId, pr, src, trace, head,
                   remote, info, valVars, gwVars, fnVars>>

\* Step 11: prepareMcpConfig, then run() returns
PrepareMcp ==
    /\ pc = "mcp"
    /\ Enter("mcp")
    /\ \E ok \in BOOLEAN :
          IF ok
          THEN /\ pc' = "done"
               /\ exitCode' = 0
               /\ outputs' = outputs \cup {"mcp_config"}
               /\ failed' = failed
          ELSE Throw
    /\ UNCHANGED <<env, ctx, perm, trig, comments,
                   commentId, pr, src, trace, head,
                   remote, info, valVars, gwVars, fnVars>>

----------------------------------------------------------------------------
(* The prepare run as a whole *)

ValIdle == vIn = Unset /\ vOut = "none"

NoArgs == [branch_name |-> Unset, base_branch |-> Unset,
           create_if_missing |-> FALSE, fetch_remote |-> FALSE, force |-> "omitted",
           files |-> <<>>, head_branch |-> Unset]
\* resolved: the handler has returned; thrown: an error left the handler;
\* afterError: the call served before this one had ended with isError
NoResult == [tool |-> "none", args |-> NoArgs, resolved |-> TRUE,
             isError |-> FALSE, thrown |-> FALSE, afterError |-> FALSE]
GitIdentity == {"user.email", "user.name"}

GwIdle ==
    /\ gwHead = N_main
    /\ gwLocal = {N_main}
    /\ gwRemote = {N_main}
    /\ gwLog = <<>>
    /\ gwRes = NoResult
    /\ gwCalls = 0
    /\ gwIdent = GitIdentity
    /\ gwToken = TRUE
    /\ gwFlight = {}

NoTexts == [phrase |-> <<>>, commentBody |-> <<>>, title |-> <<>>,
            body |-> <<>>]

\* no call of checkWritePermissions, filterCommentsByActor or
\* checkContainsTrigger on its own
PermIdle == pResp = NoResp /\ pOut = "idle"

FilterIdle ==
    /\ fComments = <<>>
    /\ fInclude = <<>>
    /\ fExclude = <<>>
    /\ fDone = TRUE
    /\ fOut = <<>>

TriggerIdle == tIn = NoTexts /\ tOut = "idle"

MultilineIdle == mIn = <<>> /\ mDone = TRUE /\ mOut = <<>>

PermissionsIdle == aIn = <<>> /\ aDone = TRUE /\ aOut = {}

FnIdle ==
    /\ PermIdle
    /\ FilterIdle
    /\ TriggerIdle
    /\ MultilineIdle
    /\ PermissionsIdle

Init ==
    /\ pc = "token"
    /\ env \in Envs
    /\ ctx = NoCtx
    /\ perm = "none"
    /\ trig = "none"
    /\ exitCode = "running"
    /\ failed = FALSE
    /\ outputs = {}
    /\ phases = <<>>
    /\ comments = 0
    /\ commentId = 0
    /\ pr = NoPR
    /\ src = Unset
    /\ trace = <<>>
    /\ head = DefaultBranch
    /\ remote \in Remotes
    /\ info = NoInfo
    /\ ValIdle
    /\ GwIdle
    /\ FnIdle

Next ==
    \/ SetupToken
    \/ ParseContext
    \/ CheckPermissions
    \/ CheckTrigger
    \/ CheckHumanActor
    \/ CreateComment
    \/ FetchData
    \/ SbSource
    \/ SbClosedFetch
    \/ SbClosedCheckout
    \/ SbClosedPull
    \/ SbOpenFetch
    \/ SbOpenCheckout
    \/ SbOpenValidate
    \/ SbIssueStatus
    \/ SbIssueFetch
    \/ SbIssueCheckout
    \/ SbIssuePull
    \/ SbIssueVerify
    \/ AutomationFlow
    \/ CreatePrompt
    \/ PrepareMcp

Spec == Init /\ [][Next]_vars


----------------------------------------------------------------------------
(* Properties of the prepare run *)

\* the git commands of setupBranch so far, and those that carry a ref
GitEvents == SelectSeq(trace, LAMBDA e : e.op = "git")
RefEvents == SelectSeq(trace, LAMBDA e : e.op = "git" /\ e.ref # Unset)

\* the branch the fallback paths are to use: the base-branch input if set,
\* else the default branch of the remote
FallbackTarget == IF env.override # Unset THEN env.override ELSE DefaultBranch

\* cmd/opt of the i-th command of the shallow path: fetch, checkout, pull
ShallowCmd(i) ==
    CASE i = 1 -> <<"fetch", "--depth=1">>
      [] i = 2 -> <<"checkout", "">>
      [] i = 3 -> <<"pull", "">>

\* the ref-carrying commands so far are the first ones of
\* fetch --depth=1 t, checkout t, pull t, each taken from sourceBranch
ShallowPathOn(t) ==
    /\ Len(RefEvents) <= 3
    /\ \A i \in 1..Len(RefEvents) :
          /\ <<RefEvents[i].cmd, RefEvents[i].opt>> = ShallowCmd(i)
          /\ RefEvents[i].ref = t
          /\ RefEvents[i].from = "sourceBranch"
          /\ RefEvents[i].via = "$"

\* C1: once checkWritePermissions has returned false the run is over with
\* exit code 1 and the failure signal, checkTriggerAction was not evaluated,
\* no tracking comment exists, no git command ran and the working tree is
\* on the branch it started on - whether or not the trigger phrase is there.
C1_DenialAbortsBeforeTrigger ==
    perm = "denied" =>
        /\ pc = "done"
        /\ exitCode = 1
        /\ failed
        /\ trig = "none"
        /\ phases = <<"token", "parse", "perm">>
        /\ comments = 0
        /\ trace = <<>>
        /\ head = DefaultBranch
        /\ info = NoInfo
        /\ "contains_trigger" \notin outputs

C1_Witness == perm = "denied" /\ env.phrase /\ exitCode = 1

\* C16: when the repository-metadata query fails, checkWritePermissions
\* returns neither true nor false but throws, and the prepare run ends with
\* exit code 1, marked failed, before the trigger is evaluated and before
\* any comment, git command or output of a later step.
C16_QueryFailureAbortsRun ==
    /\ \A resp \in RepoResponses :
           ~resp.ok => checkWritePermissions(resp) = "error"
    /\ perm = "error" =>
           /\ pc = "done"
           /\ exitCode = 1
           /\ failed
           /\ "prepare_error" \in outputs
           /\ trig = "none"
           /\ phases = <<"token", "parse", "perm">>
           /\ comments = 0
           /\ trace = <<>>
           /\ head = DefaultBranch
           /\ info = NoInfo
           /\ outputs \cap {"contains_trigger", "mcp_config"} = {}

\* the query failed in a run whose comment carries the trigger phrase
C16_Witness ==
    /\ perm = "error"
    /\ env.phrase
    /\ exitCode = 1
    /\ failed

\* C2 (as claimed): every ref that setupBranch hands to git was accepted by
\* validateBranchName earlier in the same run.
C2_RefsValidatedBeforeGit ==
    \A i \in 1..Len(trace) :
        (trace[i].op = "git" /\ trace[i].ref # Unset) =>
            \E j \in 1..(i - 1) :
                /\ trace[j].op = "validate"
                /\ trace[j].ref = trace[i].ref
                /\ trace[j].ok

\* C4 (as claimed): every git command of setupBranch and of the gateway is
\* started with execFileSync and an argument array, none through a shell.
C4_GitOnlyByExecFile ==
    /\ \A i \in 1..Len(trace) :
          trace[i].op = "git" => trace[i].via = "execFileSync"
    /\ \A i \in 1..Len(gwLog) :
          gwLog[i].op = "git" => gwLog[i].via = "execFileSync"

\* C5: for a pull request whose state is CLOSED or MERGED, the commands of
\* setupBranch that carry a ref are fetch --depth=1, checkout, pull, in this
\* order, each on the base-branch input if set and else on the default
\* branch of the remote, none taken from the head ref of the pull request;
\* and a BranchInfo is returned only after all three succeeded, with
\* baseBranch = currentBranch = that branch.
C5_ClosedPrFallsBack ==
    (ctx.isPR /\ isClosedOrMerged(pr.state)) =>
        /\ ShallowPathOn(FallbackTarget)
        /\ \A i \in 1..Len(trace) : trace[i].from # "headRefName"
        /\ info.returned =>
              /\ Len(RefEvents) = 3
              /\ \A i \in 1..3 : RefEvents[i].ok
              /\ info.baseBranch = FallbackTarget
              /\ info.currentBranch = FallbackTarget

\* a closed pull request whose head branch origin still has
C5_Witness ==
    /\ ctx.isPR
    /\ pr.state = "CLOSED"
    /\ pr.headRefName \in remote
    /\ info.returned

\* C6: for an issue event (isPR = false) the commands of setupBranch that
\* carry a ref are fetch --depth=1, checkout, pull, in this order, each on
\* the base-branch input if set and else on the default branch of the
\* remote, and none is taken from a head ref.
C6_IssueUsesBaseBranch ==
    (isEntityContext(ctx) /\ ~ctx.isPR) =>
        /\ ShallowPathOn(FallbackTarget)
        /\ \A i \in 1..Len(trace) : trace[i].from # "headRefName"
        /\ (pc = "sb_issue_verify" => Len(RefEvents) = 3)

\* an issue with the base-branch input set, after the pull
C6_Witness ==
    /\ isEntityContext(ctx)
    /\ ~ctx.isPR
    /\ env.override = N_dev
    /\ Len(RefEvents) = 3
    /\ RefEvents[3].ok

\* C7 (as claimed): a git command on the head ref of the pull request is
\* run only when the state of the pull request is OPEN.
C7_HeadRefOnlyWhenOpen ==
    \A i \in 1..Len(trace) :
        (trace[i].op = "git" /\ trace[i].from = "headRefName") => pr.state = "OPEN"

\* C8 (as claimed): setupBranch returns a BranchInfo only when the branch
\* the working tree is on after the checkout is the expected one.
C8_ReturnOnlyOnExpectedBranch ==
    info.returned => head = info.currentBranch

\* the refs whose existence on origin was confirmed (default branch looked
\* up, or fetched) by the first n entries of the trace
ConfirmedBy(n) ==
    {trace[i].ref : i \in {j \in 1..n :
        /\ trace[j].ok
        /\ \/ trace[j].op = "api" /\ trace[j].cmd = "getRepo"
           \/ trace[j].op = "git" /\ trace[j].cmd = "fetch"}}

\* the position of the first git checkout, Len(trace) + 1 if there is none
FirstCheckout ==
    LET at == {i \in 1..Len(trace) :
                  trace[i].op = "git" /\ trace[i].cmd = "checkout"}
    IN  IF at = {} THEN Len(trace) + 1
        ELSE CHOOSE i \in at : \A j \in at : i <= j

\* C9 (as claimed): the baseBranch of a returned BranchInfo was confirmed to
\* exist on the remote (looked up or fetched) before the first git checkout.
C9_BaseBranchConfirmedBeforeCheckout ==
    info.returned => info.baseBranch \in ConfirmedBy(FirstCheckout - 1)


----------------------------------------------------------------------------
(* validateBranchName on its own *)

\* no prepare run is in progress
RunIdle ==
    /\ pc = "idle"
    /\ env = [token |-> "none", mode |-> "tag", eventName |-> "issues",
              prMarker |-> FALSE, phrase |-> FALSE, override |-> Unset]
    /\ ctx = NoCtx
    /\ perm = "none"
    /\ trig = "none"
    /\ exitCode = "running"
    /\ failed = FALSE
    /\ outputs = {}
    /\ phases = <<>>
    /\ comments = 0
    /\ commentId = 0
    /\ pr = NoPR
    /\ src = Unset
    /\ trace = <<>>
    /\ head = DefaultBranch
    /\ remote = {DefaultBranch}
    /\ info = NoInfo

InitValidator ==
    /\ vIn \in ValidatorInputs
    /\ vOut = "none"
    /\ RunIdle
    /\ GwIdle
    /\ FnIdle

\* one call validateBranchName(vIn)
Validate ==
    /\ vOut = "none"
    /\ vOut' = validateBranchName(vIn)
    /\ UNCHANGED <<vIn, runVars, gwVars, fnVars>>

NextValidator == Validate

SpecValidator == InitValidator /\ [][NextValidator]_vars

\* the rejection rules of the validator, one by one
IsBlank(s) == \A i \in 1..Len(s) : s[i] \in WhitespaceChars
HasLeadingDash(s) == s # <<>> /\ s[1] = "-"
HasForbiddenChar(s) ==
    \E i \in 1..Len(s) :
        \/ s[i] \in ControlChars
        \/ s[i] \in {" ", "~", "^", ":", "?", "*", "[", "]", "\\"}
FailsPattern(s) ==
    \/ s = <<>>
    \/ s[1] \notin AlnumChars
    \/ \E i \in 2..Len(s) : s[i] \notin AlnumChars \cup {"/", "_", ".", "-"}
HasEdgePeriod(s) == s # <<>> /\ (s[1] = "." \/ s[Len(s)] = ".")
HasTrailingSlash(s) == s # <<>> /\ s[Len(s)] = "/"
HasDotDot(s) == \E i \in 1..(Len(s) - 1) : s[i] = "." /\ s[i + 1] = "."
HasLockSuffix(s) ==
    /\ Len(s) >= 5
    /\ SubSeq(s, Len(s) - 4, Len(s)) = <<".", "l", "o", "c", "k">>
HasReflogSyntax(s) == \E i \in 1..(Len(s) - 1) : s[i] = "@" /\ s[i + 1] = "{"

MustBeRejected(s) ==
    \/ IsBlank(s)
    \/ HasLeadingDash(s)
    \/ HasForbiddenChar(s)
    \/ FailsPattern(s)
    \/ HasEdgePeriod(s)
    \/ HasTrailingSlash(s)
    \/ HasDotDot(s)
    \/ HasLockSuffix(s)
    \/ HasReflogSyntax(s)

\* C10: validateBranchName throws for every string that is empty or only
\* whitespace, starts with '-', contains a control character, a space or
\* one of ~ ^ : ? * [ ] \, fails ^[A-Za-z0-9][A-Za-z0-9/_.-]*$, starts or
\* ends with '.', ends with '/', contains '..', ends with '.lock' or
\* contains '@{'; its only outcomes are a throw and a plain return, the
\* string it was given is left as it was.
C10_ListedNamesRejected ==
    /\ vOut \in {"none", "ok", "empty", "dash", "forbidden", "pattern", "period",
                 "slash", "slashes", "dotdot", "lock", "reflog"}
    /\ (vOut # "none" /\ MustBeRejected(vIn)) => vOut # "ok"

\* a name with '..' and nothing else wrong was handed in and rejected
C10_Witness ==
    /\ vIn = <<"a", ".", ".", "b">>
    /\ vOut = "dotdot"

HasDoubleSlash(s) == \E i \in 1..(Len(s) - 1) : s[i] = "/" /\ s[i + 1] = "/"
EndsWithPeriod(s) == s # <<>> /\ s[Len(s)] = "."

\* the accepted set as the specification words it
AcceptedByRule(s) ==
    /\ ~FailsPattern(s)
    /\ ~EndsWithPeriod(s)
    /\ ~HasTrailingSlash(s)
    /\ ~HasDoubleSlash(s)
    /\ ~HasDotDot(s)
    /\ ~HasLockSuffix(s)

ExampleAccepted == {<<"f", "e", "a", "t", "u", "r", "e", "/", "f", "o", "o", "-", "1">>,
                    <<"c", "l", "a", "u", "d", "e", "/", "i", "s", "s", "u", "e", "-", "4", "2">>}
ExampleRejected == Examples \ ExampleAccepted

\* C11: validateBranchName accepts exactly the strings that match
\* ^[A-Za-z0-9][A-Za-z0-9/_.-]*$ and do not end with '.', do not end with
\* '/', contain neither '//' nor '..', and do not end with '.lock';
\* 'feature/foo-1' and 'claude/issue-42' are accepted, '../etc', '.hidden',
\* 'bad/', 'a..b', 'x.lock' and 'HEAD@{1}' are rejected.
C11_AcceptsExactlyTheRule ==
    vOut # "none" =>
        /\ (vOut = "ok") <=> AcceptedByRule(vIn)
        /\ vIn \in ExampleAccepted => vOut = "ok"
        /\ vIn \in ExampleRejected => vOut # "ok"

\* 'feature/foo-1' was handed in and accepted
C11_Witness ==
    /\ vIn = <<"f", "e", "a", "t", "u", "r", "e", "/", "f", "o", "o", "-", "1">>
    /\ vOut = "ok"


----------------------------------------------------------------------------
(* The tool gateway (local-git-ops-server.ts)                              *)
(*                                                                         *)
(* A handler runs from its first statement to its return without yielding, *)
(* so a tool call is one step; create_pull_request alone awaits its HTTP   *)
(* response and is two steps, the call being in gwFlight in between.       *)
(* gwLog holds the git commands of the step taken last; gwRes the call it  *)
(* belongs to and its result.                                              *)

\* the names the agent passes as branch_name / base_branch
GwNames == {N_main, N_feat, N_opt, N_trail, N_under}

\* /^[a-zA-Z0-9_\/][a-zA-Z0-9_\/-]*$/.test(s)
gwPattern(s) ==
    /\ Len(s) >= 1
    /\ s[1] \in GwFirstChars
    /\ \A i \in 2..Len(s) : s[i] \in GwRestChars

\* runGitCommand: execFileSync("git", args, ...)
GwCmd(cmd, opt, ref, from, ok) ==
    Ev("git", "execFileSync", cmd, opt, ref, from, ok)

\* runGitCommand on a file path or a config key
GwOn(cmd, opt, path, from, ok) ==
    [GwCmd(cmd, opt, Unset, from, ok) EXCEPT !.path = path]

\* how the try block of a handler ends: the commands it ran, the repository
\* it leaves and whether it threw
Ended(log, h, loc, rem, threw) ==
    [log |-> log, head |-> h, local |-> loc, rem |-> rem, threw |-> threw,
     ident |-> gwIdent]

\* a handler whose catch clause is missing: the error leaves the handler
NoCatchClause(threw) == [isError |-> FALSE, thrown |-> threw]

\* the catch clause that closes every handler: an error thrown in the try
\* block becomes a result with isError = true
catchClause(threw) == [isError |-> threw, thrown |-> FALSE]

\* create_branch (lines 100-142): every way the handler can run
create_branch(bn, bb) ==
    LET co(ok) == GwCmd("checkout", "", bb, "base_branch", ok)
        pl(ok) == GwCmd("pull", "", bb, "base_branch", ok)
        nb(ok) == GwCmd("checkout", "-b", bn, "branch_name", ok)
        loc1 == gwLocal \cup {bb}
    IN  IF ~gwPattern(bb)
        THEN {Ended(<<>>, gwHead, gwLocal, gwRemote, TRUE)}
        ELSE {Ended(<<co(FALSE)>>, gwHead, gwLocal, gwRemote, TRUE)}
             \cup
             (IF bb \notin gwLocal \cup gwRemote THEN {}
              ELSE {Ended(<<co(TRUE), pl(FALSE)>>, bb, loc1, gwRemote, TRUE)}
                   \cup
                   (IF bb \notin gwRemote THEN {}
                    ELSE IF ~gwPattern(bn)
                    THEN {Ended(<<co(TRUE), pl(TRUE)>>, bb, loc1, gwRemote, TRUE)}
                    ELSE {Ended(<<co(TRUE), pl(TRUE), nb(FALSE)>>, bb, loc1,
                                gwRemote, TRUE)}
                         \cup
                         (IF bn \in loc1 THEN {}
                          ELSE {Ended(<<co(TRUE), pl(TRUE), nb(TRUE)>>, bn,
                                      loc1 \cup {bn}, gwRemote, FALSE)})))

\* the resolution of checkout_branch with the fetch_remote argument ignored
ResolveBranchAlwaysFetch(bn, fetch_remote) ==
    LET rp(ok) == GwCmd("rev-parse", "--verify", bn, "branch_name", ok)
        ft(ok) == GwCmd("fetch", "refspec", bn, "branch_name", ok)
    IN  IF bn \in gwLocal
        THEN {[log |-> <<rp(TRUE)>>, found |-> TRUE, local |-> gwLocal]}
        ELSE {[log |-> <<rp(FALSE), ft(FALSE)>>, found |-> FALSE, local |-> gwLocal]}
             \cup
             (IF bn \notin gwRemote THEN {}
              ELSE {[log |-> <<rp(FALSE), ft(TRUE)>>, found |-> TRUE,
                     local |-> gwLocal \cup {bn}]})

\* checkout_branch, lines 172-196: the local probe and the fetch by name;
\* found: branchExists after them
ResolveBranch(bn, fetch_remote) ==
    LET rp(ok) == GwCmd("rev-parse", "--verify", bn, "branch_name", ok)
        ft(ok) == GwCmd("fetch", "refspec", bn, "branch_name", ok)
    IN  IF bn \in gwLocal
        THEN {[log |-> <<rp(TRUE)>>, found |-> TRUE, local |-> gwLocal]}
        ELSE IF ~fetch_remote
        THEN {[log |-> <<rp(FALSE)>>, found |-> FALSE, local |-> gwLocal]}
        ELSE {[log |-> <<rp(FALSE), ft(FALSE)>>, found |-> FALSE, local |-> gwLocal]}
             \cup
             (IF bn \notin gwRemote THEN {}
              ELSE {[log |-> <<rp(FALSE), ft(TRUE)>>, found |-> TRUE,
                     local |-> gwLocal \cup {bn}]})

\* checkout_branch (lines 164-244): every way the handler can run
checkout_branch(bn, create_if_missing, fetch_remote) ==
    LET nb(ok) == GwCmd("checkout", "-b", bn, "branch_name", ok)
        co(ok) == GwCmd("checkout", "", bn, "branch_name", ok)
        finish(r) ==
            IF ~r.found /\ create_if_missing
            THEN {Ended(Append(r.log, nb(FALSE)), gwHead, r.local, gwRemote, TRUE),
                  Ended(Append(r.log, nb(TRUE)), bn, r.local \cup {bn}, gwRemote, FALSE)}
            ELSE IF ~r.found
            THEN {Ended(r.log, gwHead, r.local, gwRemote, TRUE)}
            ELSE {Ended(Append(r.log, co(FALSE)), gwHead, r.local, gwRemote, TRUE),
                  Ended(Append(r.log, co(TRUE)), bn, r.local, gwRemote, FALSE)}
    IN  IF ~gwPattern(bn)
        THEN {Ended(<<>>, gwHead, gwLocal, gwRemote, TRUE)}
        ELSE UNION {finish(r) : r \in ResolveBranch(bn, fetch_remote)}

\* the force argument as the request carries it: z.boolean().optional()
ForceArgs == {"omitted", "true", "false"}

\* a handler that forces the push unless it is told not to
push_branchForcedByDefault(force) ==
    LET rv(ok) == GwCmd("rev-parse", "--abbrev-ref HEAD", Unset, "", ok)
        ps(ok) == GwCmd("push", IF force # "false" THEN "-f" ELSE "", gwHead,
                        "currentBranch", ok)
    IN  {Ended(<<rv(FALSE)>>, gwHead, gwLocal, gwRemote, TRUE),
         Ended(<<rv(TRUE), ps(FALSE)>>, gwHead, gwLocal, gwRemote, TRUE),
         Ended(<<rv(TRUE), ps(TRUE)>>, gwHead, gwLocal, gwRemote \cup {gwHead}, FALSE)}

\* push_branch (lines 315-349): every way the handler can run; the
\* parameter `force = false` takes false when the argument is omitted, and
\* rev-parse --abbrev-ref HEAD answers the branch that is checked out
push_branch(force) ==
    LET forced == IF force = "omitted" THEN FALSE ELSE force = "true"
        rv(ok) == GwCmd("rev-parse", "--abbrev-ref HEAD", Unset, "", ok)
        ps(ok) == GwCmd("push", IF forced THEN "-f" ELSE "", gwHead,
                        "currentBranch", ok)
    IN  {Ended(<<rv(FALSE)>>, gwHead, gwLocal, gwRemote, TRUE),
         Ended(<<rv(TRUE), ps(FALSE)>>, gwHead, gwLocal, gwRemote, TRUE),
         Ended(<<rv(TRUE), ps(TRUE)>>, gwHead, gwLocal, gwRemote \cup {gwHead}, FALSE)}

\* git_status (lines 476-509): every way the handler can run
git_status ==
    LET st(ok) == GwCmd("status", "--porcelain", Unset, "", ok)
        rv(ok) == GwCmd("rev-parse", "--abbrev-ref HEAD", Unset, "", ok)
    IN  {Ended(<<st(FALSE)>>, gwHead, gwLocal, gwRemote, TRUE),
         Ended(<<st(TRUE), rv(FALSE)>>, gwHead, gwLocal, gwRemote, TRUE),
         Ended(<<st(TRUE), rv(TRUE)>>, gwHead, gwLocal, gwRemote, FALSE)}

\* the paths the agent passes in files
F_a == <<"a">>
F_abs == <<"/", "b">>
FileLists == {<<>>, <<F_a>>, <<F_abs, F_a>>, <<F_a, F_a>>}

\* file.startsWith("/") ? file.slice(1) : file
filePath(file) == IF startsWith(file, <<"/">>) THEN Tail(file) ELSE file

\* a configuration step that assigns the key whatever the probe answered
ConfigureKeyAlways(key, ident) ==
    LET probe(ok) == GwOn("config", "", key, "", ok)
        set(ok) == GwOn("config", "set", key, "", ok)
    IN  {[log |-> <<probe(key \in ident), set(TRUE)>>, threw |-> FALSE,
          ident |-> ident \cup {key}],
         [log |-> <<probe(key \in ident), set(FALSE)>>, threw |-> TRUE,
          ident |-> ident]}

\* ensureGitUserConfigured, one key (lines 67-76 and 78-87): the probe, and
\* the assignment when the probe threw
ConfigureKey(key, ident) ==
    LET probe(ok) == GwOn("config", "", key, "", ok)
        set(ok) == GwOn("config", "set", key, "", ok)
    IN  IF key \in ident
        THEN {[log |-> <<probe(TRUE)>>, threw |-> FALSE, ident |-> ident]}
        ELSE {[log |-> <<probe(FALSE), set(TRUE)>>, threw |-> FALSE,
               ident |-> ident \cup {key}],
              [log |-> <<probe(FALSE), set(FALSE)>>, threw |-> TRUE,
               ident |-> ident]}

\* ensureGitUserConfigured (lines 63-88)
ensureGitUserConfigured ==
    LET emails == ConfigureKey("user.email", gwIdent)
    IN  {e \in emails : e.threw}
        \cup
        UNION {{[log |-> e.log \o n.log, threw |-> n.threw, ident |-> n.ident] :
                    n \in ConfigureKey("user.name", e.ident)} :
               e \in {x \in emails : ~x.threw}}

\* the loops of commit_files (269-273) and delete_files (442-445): one git
\* command per file, stopping at the first that fails
\* a loop that issues the command of a file once more when it failed
RECURSIVE StageRetrying(_, _)
StageRetrying(cmd, files) ==
    IF files = <<>> THEN {[log |-> <<>>, threw |-> FALSE]}
    ELSE LET st(ok) == GwOn(cmd, "--", filePath(Head(files)), "filePath", ok)
         IN  {[log |-> <<st(FALSE), st(FALSE)>>, threw |-> TRUE]}
             \cup {[log |-> pre \o r.log, threw |-> r.threw] :
                       pre \in {<<st(TRUE)>>, <<st(FALSE), st(TRUE)>>},
                       r \in StageRetrying(cmd, Tail(files))}

RECURSIVE Stage(_, _)
Stage(cmd, files) ==
    IF files = <<>> THEN {[log |-> <<>>, threw |-> FALSE]}
    ELSE LET st(ok) == GwOn(cmd, "--", filePath(Head(files)), "filePath", ok)
         IN  {[log |-> <<st(FALSE)>>, threw |-> TRUE]}
             \cup {[log |-> <<st(TRUE)>> \o r.log, threw |-> r.threw] :
                       r \in Stage(cmd, Tail(files))}

\* a commit that is made whether or not the staging run r threw
CommitDespiteFailure(r) ==
    LET cm(ok) == GwOn("commit", "-m", Unset, "message", ok)
    IN  {[log |-> Append(r.log, cm(ok)), threw |-> r.threw \/ ~ok] :
            ok \in BOOLEAN}

\* git commit -m message, after the staging run r
Commit(r) ==
    LET cm(ok) == GwOn("commit", "-m", Unset, "message", ok)
    IN  IF r.threw THEN {r}
        ELSE {[log |-> Append(r.log, cm(ok)), threw |-> ~ok] : ok \in BOOLEAN}

\* commit_files (lines 259-305): every way the handler can run
commit_files(files) ==
    UNION {IF id.threw
           THEN {[Ended(id.log, gwHead, gwLocal, gwRemote, TRUE)
                     EXCEPT !.ident = id.ident]}
           ELSE {[Ended(id.log \o r.log, gwHead, gwLocal, gwRemote, r.threw)
                     EXCEPT !.ident = id.ident] :
                    r \in UNION {Commit(st) : st \in Stage("add", files)}} :
           id \in ensureGitUserConfigured}

\* delete_files (lines 439-472): every way the handler can run
delete_files(files) ==
    {Ended(r.log, gwHead, gwLocal, gwRemote, r.threw) :
        r \in UNION {Commit(st) : st \in Stage("rm", files)}}

\* create_pull_request up to its await (lines 366-393): sent tells whether
\* the POST was issued, head is the head it names
create_pull_request(head_branch) ==
    LET rv(ok) == GwCmd("rev-parse", "--abbrev-ref HEAD", Unset, "", ok)
    IN  IF ~gwToken
        THEN {[log |-> <<>>, threw |-> TRUE, sent |-> FALSE, head |-> Unset]}
        ELSE IF head_branch # Unset
        THEN {[log |-> <<>>, threw |-> FALSE, sent |-> TRUE, head |-> head_branch]}
        ELSE {[log |-> <<rv(FALSE)>>, threw |-> TRUE, sent |-> FALSE, head |-> Unset],
              [log |-> <<rv(TRUE)>>, threw |-> FALSE, sent |-> TRUE, head |-> gwHead]}

\* how the POST ends: fetch rejects, the status is not 2xx, the body is not
\* JSON, or the pull request was created
HttpOutcomes == {"rejected", "not_ok", "bad_json", "created"}

\* the result a handler resolves to
Resolved(tool, args, threw) ==
    LET c == catchClause(threw)
    IN  [tool |-> tool, args |-> args, resolved |-> TRUE, isError |-> c.isError,
         thrown |-> c.thrown, afterError |-> gwRes.resolved /\ gwRes.isError]

\* the server takes the next request and the handler runs to its return
Serve(tool, args, end) ==
    /\ gwCalls < MaxCalls
    /\ gwCalls' = gwCalls + 1
    /\ gwLog' = end.log
    /\ gwHead' = end.head
    /\ gwLocal' = end.local
    /\ gwRemote' = end.rem
    /\ gwIdent' = end.ident
    /\ gwRes' = Resolved(tool, args, end.threw)
    /\ UNCHANGED <<gwToken, gwFlight, valVars, runVars, fnVars>>

CreateBranch ==
    \E bn \in GwNames, bb \in GwNames :
        \E end \in create_branch(bn, bb) :
            Serve("create_branch",
                  [NoArgs EXCEPT !.branch_name = bn, !.base_branch = bb], end)

CheckoutBranch ==
    \E bn \in GwNames, create \in BOOLEAN, fetch \in BOOLEAN :
        \E end \in checkout_branch(bn, create, fetch) :
            Serve("checkout_branch",
                  [NoArgs EXCEPT !.branch_name = bn, !.create_if_missing = create,
                                 !.fetch_remote = fetch], end)

PushBranch ==
    \E force \in ForceArgs :
        \E end \in push_branch(force) :
            Serve("push_branch", [NoArgs EXCEPT !.force = force], end)

GitStatus ==
    \E end \in git_status : Serve("git_status", NoArgs, end)

CommitFiles ==
    \E files \in FileLists :
        \E end \in commit_files(files) :
            Serve("commit_files", [NoArgs EXCEPT !.files = files], end)

DeleteFiles ==
    \E files \in FileLists :
        \E end \in delete_files(files) :
            Serve("delete_files", [NoArgs EXCEPT !.files = files], end)

\* create_pull_request from its first statement to its await, or to its
\* return when it threw before
CreatePullRequest ==
    \E bb \in {N_main, N_opt}, hb \in {Unset, N_feat} :
        \E b \in create_pull_request(hb) :
            LET args == [NoArgs EXCEPT !.base_branch = bb, !.head_branch = hb]
                end == Ended(b.log, gwHead, gwLocal, gwRemote, b.threw)
            IN  IF ~b.sent
                THEN Serve("create_pull_request", args, end)
                ELSE /\ gwCalls < MaxCalls
                     /\ gwCalls' = gwCalls + 1
                     /\ gwLog' = b.log
                     /\ gwRes' = [Resolved("create_pull_request", args, FALSE)
                                      EXCEPT !.resolved = FALSE]
                     /\ gwFlight' = gwFlight \cup
                                        {[id |-> gwCalls + 1, head |-> b.head,
                                          res |-> gwRes']}
                     /\ UNCHANGED <<gwHead, gwLocal, gwRemote, gwIdent, gwToken,
                                    valVars, runVars, fnVars>>

\* create_pull_request from the response to its return (lines 395-423)
PullRequestResponse ==
    \E p \in gwFlight, r \in HttpOutcomes :
        LET c == catchClause(r # "created")
        IN  /\ gwFlight' = gwFlight \ {p}
            /\ gwLog' = <<>>
            /\ gwRes' = [p.res EXCEPT !.resolved = TRUE, !.isError = c.isError,
                                      !.thrown = c.thrown]
            /\ UNCHANGED <<gwHead, gwLocal, gwRemote, gwCalls, gwIdent, gwToken,
                           valVars, runVars, fnVars>>

InitGateway ==
    /\ gwHead = N_main
    /\ gwLocal = {N_main}
    /\ gwRemote \in {{N_main}, {N_main, N_feat}}
    /\ gwLog = <<>>
    /\ gwRes = NoResult
    /\ gwCalls = 0
    /\ gwIdent \in {{}, GitIdentity}
    /\ gwToken \in BOOLEAN
    /\ gwFlight = {}
    /\ ValIdle
    /\ RunIdle
    /\ FnIdle

NextGateway ==
    \/ CreateBranch
    \/ CheckoutBranch
    \/ PushBranch
    \/ GitStatus
    \/ CommitFiles
    \/ DeleteFiles
    \/ CreatePullRequest
    \/ PullRequestResponse

SpecGateway == InitGateway /\ [][NextGateway]_vars

\* C3 (as claimed): every ref that a gateway handler hands to git is a name
\* the Branch Name Validator accepts.
C3_GatewayRefsPassValidator ==
    \A i \in 1..Len(gwLog) :
        (gwLog[i].op = "git" /\ gwLog[i].ref # Unset) =>
            validateBranchName(gwLog[i].ref) = "ok"

GatewayTools == {"create_branch", "checkout_branch", "commit_files",
                 "delete_files", "push_branch", "create_pull_request",
                 "git_status"}

\* the git commands whose failure a handler answers itself: the config
\* probes of ensureGitUserConfigured, and the local probe and the fetch by
\* name of checkout_branch
IsProbe(e) ==
    \/ e.cmd = "config" /\ e.opt = ""
    \/ e.cmd = "rev-parse" /\ e.opt = "--verify"
    \/ e.cmd = "fetch" /\ e.opt = "refspec"

\* a git command of the call served last failed, and it was not a probe
LastStepThrew == \E i \in 1..Len(gwLog) : ~gwLog[i].ok /\ ~IsProbe(gwLog[i])

\* C12: every tool invocation of the gateway resolves to a success payload
\* or to a result with isError = true; no failure of git, of the validation
\* or of the HTTP request leaves a handler as a thrown error, and after a
\* failed invocation the gateway takes and serves the next one.
C12_HandlersResolveOrReportError ==
    /\ gwRes.tool \in GatewayTools \cup {"none"}
    /\ ~gwRes.thrown
    /\ \A p \in gwFlight : p.res.tool = "create_pull_request" /\ ~p.res.resolved
    /\ (gwRes.resolved /\ LastStepThrew) => gwRes.isError
    /\ (gwRes.resolved /\ gwRes.isError /\ gwCalls < MaxCalls) => ENABLED NextGateway

\* a call failed on a git command, and the call after it was served and
\* succeeded
C12_Witness ==
    /\ gwRes.resolved
    /\ gwRes.afterError
    /\ ~gwRes.isError
    /\ gwRes.tool = "commit_files"

\* the ref-like arguments of the call served last
RefArgs ==
    CASE gwRes.tool = "create_branch" -> {gwRes.args.base_branch, gwRes.args.branch_name}
      [] gwRes.tool = "checkout_branch" -> {gwRes.args.branch_name}
      [] OTHER -> {}

\* C13 (as claimed): when a ref-like argument of a tool call fails the
\* gateway's validation, the call ends with an error result and has run no
\* git command; create_branch with a valid base_branch and an invalid
\* branch_name leaves the checked-out branch as it was.
C13_InvalidRefRunsNoGit ==
    (gwRes.resolved /\ \E a \in RefArgs : ~gwPattern(a)) =>
        /\ gwRes.isError
        /\ gwLog = <<>>

\* positions in the log of the last call
IsLocalProbe(e) == e.cmd = "rev-parse" /\ e.opt = "--verify"
IsFetchByName(e) == e.cmd = "fetch" /\ e.opt = "refspec"
IsCreate(e) == e.cmd = "checkout" /\ e.opt = "-b"
IsCheckout(e) == e.cmd = "checkout" /\ e.opt = ""
LogHas(P(_)) == \E i \in 1..Len(gwLog) : P(gwLog[i])
FetchedOk == \E i \in 1..Len(gwLog) : IsFetchByName(gwLog[i]) /\ gwLog[i].ok

\* C14: checkout_branch probes the local ref first; it fetches the branch by
\* name from origin only when the probe failed and fetch_remote is true, and
\* then it does; it creates a new branch only when the branch is still
\* absent and create_if_missing is true; when the branch is absent after
\* these steps and is not to be created the call returns an error and runs
\* no checkout; a branch found locally is checked out without a fetch; no
\* branch is created when the probe or the fetch succeeded.
C14_CheckoutResolutionOrder ==
    (gwRes.tool = "checkout_branch" /\ gwLog # <<>>) =>
        LET a == gwRes.args
            probeOk == gwLog[1].ok
            absent == ~probeOk /\ ~FetchedOk
        IN  /\ IsLocalProbe(gwLog[1])
            /\ \A i \in 2..Len(gwLog) : ~IsLocalProbe(gwLog[i])
            /\ \A i \in 1..Len(gwLog) :
                   IsFetchByName(gwLog[i]) => i = 2 /\ ~probeOk /\ a.fetch_remote
            /\ (~probeOk /\ a.fetch_remote) =>
                   Len(gwLog) >= 2 /\ IsFetchByName(gwLog[2])
            /\ \A i \in 1..Len(gwLog) :
                   IsCreate(gwLog[i]) =>
                       absent /\ a.create_if_missing /\ i = Len(gwLog)
            /\ (absent /\ a.create_if_missing) => IsCreate(gwLog[Len(gwLog)])
            /\ (absent /\ ~a.create_if_missing) =>
                   /\ gwRes.isError
                   /\ ~LogHas(IsCheckout)
                   /\ ~LogHas(IsCreate)
            /\ probeOk =>
                   /\ ~LogHas(IsFetchByName)
                   /\ Len(gwLog) = 2
                   /\ IsCheckout(gwLog[2])
            /\ (~absent) => IsCheckout(gwLog[Len(gwLog)])

\* the branch was not found locally, the fetch by name failed, and the
\* branch was created
C14_Witness ==
    /\ gwRes.tool = "checkout_branch"
    /\ Len(gwLog) = 3
    /\ ~gwLog[1].ok
    /\ IsFetchByName(gwLog[2]) /\ ~gwLog[2].ok
    /\ IsCreate(gwLog[3]) /\ gwLog[3].ok
    /\ gwHead = gwRes.args.branch_name

----------------------------------------------------------------------------
(* checkWritePermissions and filterCommentsByActor on their own *)

\* most comments in one input of the filter
MaxComments == 2
\* pieces a text handed to checkContainsTrigger is put together from
MaxPieces == 3
\* characters of an input of parseMultilineInput
MaxInput == 4
\* lines of an input of parseAdditionalPermissions
MaxLines == 2

P_bots == <<"*", "[", "b", "o", "t", "]">>
P_a == <<"a", "*">>
P_all == <<"*">>
Patterns == {L_alice, P_bots, P_a, P_all}

----------------------------------------------------------------------------
(* The trigger phrase (github/validation/trigger.ts) *)

\* github/validation/trigger.ts is not among the source files; the phrase
\* criterion is the one of the specification, section 4.2 (a): the phrase
\* occurs, compared without regard to case, as a whole token of the comment
\* body, the title or the body.
toLowerCase(c) ==
    CASE c = "A" -> "a" [] c = "C" -> "c" [] c = "D" -> "d"
      [] c = "E" -> "e" [] c = "L" -> "l" [] c = "U" -> "u"
      [] OTHER -> c

lower(s) == [i \in 1..Len(s) |-> toLowerCase(s[i])]

\* a character that continues a token: a letter, a digit or "_"
isWordChar(c) ==
    toLowerCase(c) \in {"a", "c", "d", "e", "f", "i", "l", "u", "x", "y", "z",
                        "_", "1"}

\* the phrase stands at position i of text, whatever is next to it
matchesSubstring(text, phrase, i) ==
    /\ i + Len(phrase) - 1 <= Len(text)
    /\ lower(SubSeq(text, i, i + Len(phrase) - 1)) = lower(phrase)

\* the phrase stands at position i of text, with no token character next to it
matchesAt(text, phrase, i) ==
    /\ i + Len(phrase) - 1 <= Len(text)
    /\ lower(SubSeq(text, i, i + Len(phrase) - 1)) = lower(phrase)
    /\ i > 1 => ~isWordChar(text[i - 1])
    /\ i + Len(phrase) <= Len(text) => ~isWordChar(text[i + Len(phrase)])

\* the scan of one text from position i on
RECURSIVE scan(_, _, _)
scan(text, phrase, i) ==
    IF i > Len(text) THEN FALSE
    ELSE IF matchesAt(text, phrase, i) THEN TRUE
    ELSE scan(text, phrase, i + 1)

containsPhrase(text, phrase) == phrase # <<>> /\ scan(text, phrase, 1)

\* short-circuits on the first text that carries the phrase
checkContainsTrigger(t) ==
    IF containsPhrase(t.commentBody, t.phrase) THEN TRUE
    ELSE IF containsPhrase(t.title, t.phrase) THEN TRUE
    ELSE containsPhrase(t.body, t.phrase)

\* the pieces the texts of an entity are put together from
W_claude == <<"@", "c", "l", "a", "u", "d", "e">>
W_CLAUDE == <<"@", "C", "l", "a", "U", "D", "E">>
W_xyz == <<"x", "y", "z">>
W_fix == <<"f", "i", "x">>
Pieces == {W_claude, W_CLAUDE, W_xyz, W_fix, <<" ">>, <<".">>}

RECURSIVE Concat(_)
Concat(ps) == IF ps = <<>> THEN <<>> ELSE Head(ps) \o Concat(Tail(ps))

Texts == {Concat(ps) : ps \in UNION {[1..n -> Pieces] : n \in 0..MaxPieces}}
OtherTexts == {<<>>, W_claude \o W_xyz, W_fix \o <<" ">> \o W_CLAUDE}

\* one of the three texts is free, the other two are short
TriggerInputs ==
    {[phrase |-> W_claude, commentBody |-> c, title |-> t, body |-> b] :
        c \in Texts, t \in OtherTexts, b \in OtherTexts}
    \cup {[phrase |-> W_claude, commentBody |-> <<>>, title |-> t, body |-> b] :
        t \in Texts, b \in Texts \cap {<<>>, W_claude, W_claude \o W_xyz}}

----------------------------------------------------------------------------
(* parseMultilineInput and parseAdditionalPermissions (context.ts) *)

NewlineChars == {"LF", "CR"}

\* s.split(sep) for a set of one-character separators
RECURSIVE splitOn(_, _)
splitOn(s, seps) ==
    IF \A i \in 1..Len(s) : s[i] \notin seps
    THEN <<s>>
    ELSE LET k == CHOOSE i \in 1..Len(s) :
                      s[i] \in seps /\ \A j \in 1..(i - 1) : s[j] \notin seps
         IN  <<SubSeq(s, 1, k - 1)>> \o splitOn(SubSeq(s, k + 1, Len(s)), seps)

\* the end of the separator that starts at k: a comma is one character, a
\* run of newline characters is taken whole ([\n\r]+)
RECURSIVE runEnd(_, _)
runEnd(s, k) ==
    IF k < Len(s) /\ s[k] \in NewlineChars /\ s[k + 1] \in NewlineChars
    THEN runEnd(s, k + 1)
    ELSE k

\* s.split(/,|[\n\r]+/)
RECURSIVE splitEntries(_)
splitEntries(s) ==
    LET seps == NewlineChars \cup {","}
    IN  IF \A i \in 1..Len(s) : s[i] \notin seps
        THEN <<s>>
        ELSE LET k == CHOOSE i \in 1..Len(s) :
                          s[i] \in seps /\ \A j \in 1..(i - 1) : s[j] \notin seps
             IN  <<SubSeq(s, 1, k - 1)>>
                 \o splitEntries(SubSeq(s, runEnd(s, k) + 1, Len(s)))

\* a replace that cuts at the first '#', with or without text after it
replaceFromHash(e) ==
    IF \E i \in 1..Len(e) : e[i] = "#"
    THEN LET k == CHOOSE i \in 1..Len(e) :
                      e[i] = "#" /\ \A j \in 1..(i - 1) : e[j] # "#"
         IN  SubSeq(e, 1, k - 1)
    ELSE e

\* tool.replace(/#.+$/, ""): the leftmost '#' that has at least one
\* character after it (none of them a line terminator), up to the end
replaceComment(e) ==
    IF \E i \in 1..(Len(e) - 1) :
          e[i] = "#" /\ \A j \in (i + 1)..Len(e) : e[j] \notin NewlineChars
    THEN LET k == CHOOSE i \in 1..(Len(e) - 1) :
                      /\ e[i] = "#"
                      /\ \A j \in (i + 1)..Len(e) : e[j] \notin NewlineChars
                      /\ \A h \in 1..(i - 1) :
                            ~(e[h] = "#" /\ \A j \in (h + 1)..Len(e) :
                                               e[j] \notin NewlineChars)
         IN  SubSeq(e, 1, k - 1)
    ELSE e

\* parseMultilineInput (lines 188-194)
parseMultilineInput(s) ==
    LET entries == splitEntries(s)
        cut == [i \in 1..Len(entries) |-> trim(replaceComment(entries[i]))]
    IN  SelectSeq(cut, LAMBDA tool : Len(tool) > 0)

\* a loop in which the first line of a key wins
RECURSIVE setLinesKeepFirst(_, _)
setLinesKeepFirst(ls, m) ==
    IF ls = <<>> THEN m
    ELSE LET trimmedLine == trim(Head(ls))
             parts == mapTrim(splitOn(trimmedLine, {":"}))
             key == parts[1]
             value == IF Len(parts) >= 2 THEN parts[2] ELSE <<>>
         IN  IF /\ trimmedLine # <<>> /\ key # <<>> /\ value # <<>>
                /\ \A e \in m : e.key # key
             THEN setLinesKeepFirst(Tail(ls), m \cup {[key |-> key, value |-> value]})
             ELSE setLinesKeepFirst(Tail(ls), m)

\* the permissions map after the lines of ls, from the map m (lines 203-211)
RECURSIVE setLines(_, _)
setLines(ls, m) ==
    IF ls = <<>> THEN m
    ELSE LET trimmedLine == trim(Head(ls))
             parts == mapTrim(splitOn(trimmedLine, {":"}))
             key == parts[1]
             value == IF Len(parts) >= 2 THEN parts[2] ELSE <<>>
         IN  IF trimmedLine # <<>> /\ key # <<>> /\ value # <<>>
             THEN setLines(Tail(ls),
                           {e \in m : e.key # key}
                               \cup {[key |-> key, value |-> value]})
             ELSE setLines(Tail(ls), m)

\* parseAdditionalPermissions (lines 196-213)
parseAdditionalPermissions(s) ==
    IF s = <<>> \/ trim(s) = <<>> THEN {}
    ELSE setLines(splitOn(trim(s), {"LF"}), {})

\* the strings parseMultilineInput is fed with
MultilineChars == {"a", "b", "#", ",", "LF", " "}
MultilineInputs ==
    UNION {[1..n -> MultilineChars] : n \in 0..MaxInput}

\* the lines parseAdditionalPermissions is fed with, joined by newlines
K_v == <<"k", ":", "v">>
K_w == <<"k", ":", "w">>
J_v == <<"j", ":", "v">>
PermissionLines ==
    {K_v, K_w, J_v, <<"k">>, <<":", "v">>, <<"k", ":">>,
     <<" ", "k", " ", ":", " ", "v", " ">>, <<"k", ":", "v", ":", "w">>,
     <<>>, <<" ">>}

RECURSIVE joinLines(_)
joinLines(ls) ==
    IF ls = <<>> THEN <<>>
    ELSE IF Len(ls) = 1 THEN Head(ls)
    ELSE Head(ls) \o <<"LF">> \o joinLines(Tail(ls))

PermissionInputs ==
    {joinLines(ls) : ls \in UNION {[1..n -> PermissionLines] : n \in 0..MaxLines}}

\* the comments of an entity: id is the position in the API's answer
CommentLists ==
    UNION {{[i \in 1..n |-> [id |-> i, login |-> ls[i]]] : ls \in [1..n -> Logins]} :
           n \in 0..MaxComments}

\* the values of include_comments_by_actor / exclude_comments_by_actor: unset,
\* one pattern, two patterns, and lists with blanks and empty entries
FilterStrings ==
    {<<>>} \cup Patterns \cup {p \o <<",">> \o q : p, q \in Patterns}
    \cup {<<" ">>, <<",">>, <<" ">> \o L_alice \o <<" ", ",", " ">> \o P_bots,
          L_alice \o <<",", ",">> \o P_a}

InitFunctions ==
    /\ \/ /\ pResp \in RepoResponses
          /\ pOut = "none"
          /\ FilterIdle /\ TriggerIdle /\ MultilineIdle /\ PermissionsIdle
       \/ /\ fComments \in CommentLists
          /\ fInclude \in FilterStrings
          /\ fExclude \in FilterStrings
          /\ fDone = FALSE
          /\ fOut = <<>>
          /\ PermIdle /\ TriggerIdle /\ MultilineIdle /\ PermissionsIdle
       \/ /\ tIn \in TriggerInputs
          /\ tOut = "none"
          /\ PermIdle /\ FilterIdle /\ MultilineIdle /\ PermissionsIdle
       \/ /\ mIn \in MultilineInputs
          /\ mDone = FALSE
          /\ mOut = <<>>
          /\ PermIdle /\ FilterIdle /\ TriggerIdle /\ PermissionsIdle
       \/ /\ aIn \in PermissionInputs
          /\ aDone = FALSE
          /\ aOut = {}
          /\ PermIdle /\ FilterIdle /\ TriggerIdle /\ MultilineIdle
    /\ ValIdle
    /\ RunIdle
    /\ GwIdle

\* one call checkWritePermissions(api, context), api.getRepo answering pResp
CheckWrite ==
    /\ pOut = "none"
    /\ pOut' = checkWritePermissions(pResp)
    /\ UNCHANGED <<pResp, filterVars, triggerVars, multilineVars,
                   permissionsVars, valVars, runVars, gwVars>>

\* one call filterCommentsByActor(fComments, fInclude, fExclude)
FilterComments ==
    /\ ~fDone
    /\ fDone' = TRUE
    /\ fOut' = filterCommentsByActor(fComments, fInclude, fExclude)
    /\ UNCHANGED <<fComments, fInclude, fExclude, permVars, triggerVars,
                   multilineVars, permissionsVars, valVars, runVars, gwVars>>

\* one call checkContainsTrigger(context) on the texts tIn
CheckContainsTrigger ==
    /\ tOut = "none"
    /\ tOut' = IF checkContainsTrigger(tIn) THEN "true" ELSE "false"
    /\ UNCHANGED <<tIn, permVars, filterVars, multilineVars, permissionsVars,
                   valVars, runVars, gwVars>>

\* one call parseMultilineInput(mIn)
ParseMultilineInput ==
    /\ ~mDone
    /\ mDone' = TRUE
    /\ mOut' = parseMultilineInput(mIn)
    /\ UNCHANGED <<mIn, permVars, filterVars, triggerVars, permissionsVars,
                   valVars, runVars, gwVars>>

\* one call parseAdditionalPermissions(aIn)
ParseAdditionalPermissions ==
    /\ ~aDone
    /\ aDone' = TRUE
    /\ aOut' = parseAdditionalPermissions(aIn)
    /\ UNCHANGED <<aIn, permVars, filterVars, triggerVars, multilineVars,
                   valVars, runVars, gwVars>>

NextFunctions ==
    \/ CheckWrite
    \/ FilterComments
    \/ CheckContainsTrigger
    \/ ParseMultilineInput
    \/ ParseAdditionalPermissions

SpecFunctions == InitFunctions /\ [][NextFunctions]_vars

\* C15: checkWritePermissions returns true for a response without the
\* permissions field, true when permissions.admin or permissions.push is
\* true, and false when both are false, whatever permissions.pull is.
C15_WriteAccessFromAdminOrPush ==
    (pOut \notin {"idle", "none"} /\ pResp.ok) =>
        /\ ~pResp.hasPerms => pOut = "granted"
        /\ (pResp.hasPerms /\ (pResp.admin \/ pResp.push)) => pOut = "granted"
        /\ (pResp.hasPerms /\ ~pResp.admin /\ ~pResp.push) => pOut = "denied"

\* a response that grants pull only was answered with false
C15_Witness ==
    /\ pResp.ok /\ pResp.hasPerms
    /\ pResp.pull /\ ~pResp.admin /\ ~pResp.push
    /\ pOut = "denied"

\* the lists the filter works with, and what the call kept
IncludeList == parseActorFilter(fInclude)
ExcludeList == parseActorFilter(fExclude)
Kept(c) == \E i \in 1..Len(fOut) : fOut[i] = c
MatchesSome(login, patterns) ==
    \E i \in 1..Len(patterns) : matchesPattern(login, patterns[i])
\* the filter string f with its two patterns in the other order
Reordered(f) ==
    {q \o <<",">> \o p : p \in {x \in Patterns : \E y \in Patterns : x \o <<",">> \o y = f},
                          q \in {y \in Patterns : \E x \in Patterns : x \o <<",">> \o y = f}}

\* C17: a comment whose author matches some exclude pattern is not in the
\* result of filterCommentsByActor, whatever the include list is and also
\* when the author matches an include pattern; the result is the same for
\* every order in which the same patterns are listed.
C17_ExclusionTakesPrecedence ==
    fDone =>
        /\ \A i \in 1..Len(fComments) :
               MatchesSome(fComments[i].login, ExcludeList) => ~Kept(fComments[i])
        /\ \A e \in Reordered(fExclude) :
               filterCommentsByActor(fComments, fInclude, e) = fOut
        /\ \A n \in Reordered(fInclude) :
               filterCommentsByActor(fComments, n, fExclude) = fOut

\* alice is on both lists, and her comment was removed while bob's, who is
\* on neither, went with it
C17_Witness ==
    /\ fDone
    /\ fInclude = L_alice
    /\ fExclude = P_a \o <<",">> \o L_alice
    /\ fComments = <<[id |-> 1, login |-> L_alice], [id |-> 2, login |-> L_bob]>>
    /\ fOut = <<>>

\* the login ends with the text [bot]
EndsWithBotTag(login) == endsWith(login, <<"[", "b", "o", "t", "]">>)

\* C18 (as claimed): with the exclude pattern '*[bot]' the filter removes
\* every comment whose author's login ends with the text '[bot]', for any
\* include list, and removes no other comment unless the include list
\* leaves it out.
C18_BotPatternRemovesBots ==
    (fDone /\ ExcludeList = <<P_bots>>) =>
        \A i \in 1..Len(fComments) :
            LET login == fComments[i].login
            IN  /\ EndsWithBotTag(login) => ~Kept(fComments[i])
                /\ (~EndsWithBotTag(login) /\ ~Kept(fComments[i])) =>
                       /\ IncludeList # <<>>
                       /\ ~MatchesSome(login, IncludeList)

\* C19: with an empty include list filterCommentsByActor keeps exactly the
\* comments whose author matches no exclude pattern (no include list and
\* the exclude list 'alice' keep every author but alice); with a non-empty
\* include list it keeps exactly the comments whose author matches some
\* include pattern and no exclude pattern.
C19_KeptExactlyByLists ==
    fDone =>
        /\ \A i \in 1..Len(fComments) :
               LET login == fComments[i].login
               IN  Kept(fComments[i]) <=>
                       IF IncludeList = <<>>
                       THEN ~MatchesSome(login, ExcludeList)
                       ELSE /\ MatchesSome(login, IncludeList)
                            /\ ~MatchesSome(login, ExcludeList)
        /\ (IncludeList = <<>> /\ ExcludeList = <<L_alice>>) =>
               \A i \in 1..Len(fComments) :
                   Kept(fComments[i]) <=> fComments[i].login # L_alice

\* no include list, alice excluded: of alice's and bob's comments bob's alone
\* came back
C19_Witness ==
    /\ fDone
    /\ fInclude = <<>>
    /\ fExclude = L_alice
    /\ fComments = <<[id |-> 1, login |-> L_alice], [id |-> 2, login |-> L_bob]>>
    /\ fOut = <<[id |-> 2, login |-> L_bob]>>

\* q is p with some elements left out
RECURSIVE IsSubsequence(_, _)
IsSubsequence(q, p) ==
    IF q = <<>> THEN TRUE
    ELSE IF p = <<>> THEN FALSE
    ELSE IF Head(q) = Head(p) THEN IsSubsequence(Tail(q), Tail(p))
    ELSE IsSubsequence(q, Tail(p))

\* C20: the result of filterCommentsByActor is a subsequence of the comments
\* handed in, in their order; the comments handed in are left as they were;
\* filtering the result again with the same filters gives the result; with
\* both filters empty the result is the input.
C20_FilterIsOrderPreservingAndIdempotent ==
    fDone =>
        /\ IsSubsequence(fOut, fComments)
        /\ \A i \in 1..Len(fComments) : fComments[i].id = i
        /\ filterCommentsByActor(fOut, fInclude, fExclude) = fOut
        /\ (IncludeList = <<>> /\ ExcludeList = <<>>) => fOut = fComments

\* two comments by bob came back in the order they went in, alice's between
\* them did not
C20_Witness ==
    /\ fDone
    /\ fExclude = L_alice
    /\ Len(fComments) >= 2
    /\ fComments[1].login = L_bob
    /\ fComments[Len(fComments)].login = L_bob
    /\ Len(fOut) = 2
    /\ fOut[1].id < fOut[2].id

----------------------------------------------------------------------------
(* Properties of the parsed context *)

RecognizedEvents == EntityEvents \cup AUTOMATION_EVENT_NAMES

\* C21: the context that parseGitHubContext returns carries entityNumber and
\* isPR for issues, issue_comment, pull_request, pull_request_review and
\* pull_request_review_comment, and neither for workflow_run,
\* workflow_dispatch and schedule; of isEntityContext and isAutomationEvent
\* exactly one is true of it.
C21_ContextVariantByEventName ==
    ctx # NoCtx =>
        /\ ctx.eventName = env.eventName
        /\ env.eventName \in EntityEvents => ctx.keys = {"entityNumber", "isPR"}
        /\ env.eventName \in AUTOMATION_EVENT_NAMES => ctx.keys = {}
        /\ isEntityContext(ctx) # isAutomationEvent(ctx)

\* a workflow_dispatch event was parsed into an automation context
C21_Witness ==
    /\ ctx.eventName = "workflow_dispatch"
    /\ isAutomationEvent(ctx)
    /\ ~isEntityContext(ctx)

\* C22: for an event name outside the eight recognized ones
\* parseGitHubContext throws and no context exists; the run ends there with
\* exit code 1, no later phase is entered.
C22_UnknownEventIsFatal ==
    (env.eventName \notin RecognizedEvents /\ pc \notin {"token", "parse"}) =>
        /\ ctx = NoCtx
        /\ pc = "done"
        /\ exitCode = 1
        /\ failed
        /\ \A i \in 1..Len(phases) : phases[i] \in {"token", "parse"}
        /\ perm = "none" /\ trig = "none"
        /\ comments = 0 /\ trace = <<>> /\ info = NoInfo

\* a push event with a valid mode and a token reached the parser and the run
\* ended with exit code 1
C22_Witness ==
    /\ env.eventName = "push"
    /\ isValidMode(env.mode)
    /\ phases = <<"token", "parse">>
    /\ pc = "done"
    /\ exitCode = 1
    /\ "prepare_error" \in outputs

\* C23: isPR of the parsed context is false for an issues event, true for
\* pull_request, pull_request_review and pull_request_review_comment, and
\* for issue_comment true exactly when the issue of the payload carries
\* the pull_request marker.
C23_IsPRByEvent ==
    ctx # NoCtx =>
        /\ env.eventName = "issues" => ~ctx.isPR
        /\ env.eventName \in {"pull_request", "pull_request_review",
                              "pull_request_review_comment"} => ctx.isPR
        /\ env.eventName = "issue_comment" => (ctx.isPR <=> env.prMarker)

\* a comment on a pull request was parsed with isPR true
C23_Witness ==
    /\ ctx.eventName = "issue_comment"
    /\ env.prMarker
    /\ ctx.isPR

----------------------------------------------------------------------------
(* Properties of the trigger phrase *)

\* the phrase stands in text as a whole token: at some position, in any
\* case, with the start of the text or a non-token character before it and
\* the end of the text or a non-token character after it
WholeToken(text, phrase) ==
    \E i \in 1..Len(text) :
        /\ i + Len(phrase) - 1 <= Len(text)
        /\ \A k \in 1..Len(phrase) :
              toLowerCase(text[i + k - 1]) = toLowerCase(phrase[k])
        /\ i = 1 \/ ~isWordChar(text[i - 1])
        /\ i + Len(phrase) > Len(text) \/ ~isWordChar(text[i + Len(phrase)])

\* C24: checkContainsTrigger returns true exactly when the trigger phrase is
\* a whole token, compared without regard to case, of the comment body, the
\* title or the body; texts whose only occurrence of the phrase is inside
\* the longer token "@claudexyz" give false.
C24_TriggerIffWholeToken ==
    tOut \in {"true", "false"} =>
        /\ tOut = "true" <=>
              \/ WholeToken(tIn.commentBody, tIn.phrase)
              \/ WholeToken(tIn.title, tIn.phrase)
              \/ WholeToken(tIn.body, tIn.phrase)
        /\ ( /\ tIn.commentBody = W_claude \o W_xyz
             /\ tIn.title \in {<<>>, W_claude \o W_xyz}
             /\ tIn.body \in {<<>>, W_claude \o W_xyz} ) => tOut = "false"

\* the comment body is "@claudexyz" alone and the call answered false
C24_Witness ==
    /\ tOut = "false"
    /\ tIn.phrase = W_claude
    /\ tIn.commentBody = W_claude \o W_xyz
    /\ tIn.title = W_claude \o W_xyz
    /\ tIn.body = <<>>

----------------------------------------------------------------------------
(* Properties of the order of the phases *)

\* the steps of run() in the order of the source text
PhaseOrder == <<"token", "parse", "perm", "trigger", "human", "comment",
                "fetch", "branch", "prompt", "mcp">>
Rank(p) == CHOOSE i \in 1..Len(PhaseOrder) : PhaseOrder[i] = p
Entered(p) == \E i \in 1..Len(phases) : phases[i] = p

\* C25: a prepare run enters its phases in the order context parsing,
\* permission check, trigger check, data fetch, branch setup, MCP
\* configuration; a phase is entered only when the one before it has
\* succeeded; after a failure no phase is entered and no step is taken, and
\* the exit code is 1 (a run that ends with 0 found no trigger or has
\* produced the MCP configuration).
C25_PhasesInOrderFailFast ==
    /\ \A i, j \in 1..Len(phases) : i < j => Rank(phases[i]) < Rank(phases[j])
    /\ Entered("perm") => Entered("parse") /\ ctx # NoCtx
    /\ Entered("trigger") => Entered("perm") /\ perm = "granted"
    /\ Entered("fetch") => Entered("trigger") /\ trig = "yes"
    /\ Entered("branch") => Entered("fetch") /\ pr # NoPR
    /\ Entered("mcp") =>
          /\ Entered("trigger") /\ trig = "yes"
          /\ isEntityContext(ctx) => Entered("branch") /\ info # NoInfo
    /\ IF pc = "done"
       THEN /\ exitCode \in {0, 1}
            /\ ~ENABLED Next
            /\ exitCode = 1 => "mcp_config" \notin outputs
            /\ exitCode = 0 => trig = "no" \/ "mcp_config" \in outputs
       ELSE exitCode = "running"

\* the data fetch failed: the run ended there with exit code 1
C25_Witness ==
    /\ pc = "done"
    /\ exitCode = 1
    /\ phases = <<"token", "parse", "perm", "trigger", "human", "comment",
                  "fetch">>

----------------------------------------------------------------------------
(* Properties of the fatal exits *)

\* C26: every run that ends with exit code 1, whichever phase failed, has
\* called core.setFailed and has set the output prepare_error.
C26_FatalExitIsSignalled ==
    (pc = "done" /\ exitCode = 1) =>
        failed /\ "prepare_error" \in outputs

----------------------------------------------------------------------------
(* Properties of the data fetch *)

\* the run went on after fetchGitHubData returned
FetchReturned == Entered("fetch") /\ (pc = "sb_source" \/ Entered("branch"))

\* C27: a rejected comment-list request leaves fetchGitHubData returning
\* with an empty comment list and a warning, a rejected changed-files
\* request with an empty file list and a warning, and the run goes on to
\* the branch setup; a rejected PR or issue request makes fetchGitHubData
\* throw, and the run ends there with exit code 1 and the failure signal.
C27_OptionalRequestsDegrade ==
    /\ "comments" \in pr.rejected =>
          /\ FetchReturned
          /\ pr.comments = <<>>
          /\ "warn: Failed to fetch comments" \in pr.log
    /\ "files" \in pr.rejected =>
          /\ FetchReturned
          /\ pr.changedFiles = <<>>
          /\ "warn: Failed to fetch PR files" \in pr.log
    /\ "entity" \in pr.rejected =>
          /\ ~FetchReturned
          /\ pc = "done" /\ exitCode = 1
          /\ failed /\ "prepare_error" \in outputs
          /\ trace = <<>> /\ info = NoInfo
    /\ (Entered("fetch") /\ ~FetchReturned) => pr.rejected = {"entity"}

\* both optional requests of a pull request were rejected and the run
\* reached the branch setup
C27_Witness ==
    /\ pr.rejected = {"comments", "files"}
    /\ pr.state = "OPEN"
    /\ Entered("branch")

----------------------------------------------------------------------------
(* Properties of a run without credential or with an invalid mode *)

\* nothing was changed: no tracking comment, no git command or validation
\* of setupBranch, the working tree on the branch it started on, no entity
\* data, no BranchInfo and no MCP configuration
NothingMutated ==
    /\ comments = 0
    /\ trace = <<>>
    /\ head = DefaultBranch
    /\ pr = NoPR
    /\ info = NoInfo
    /\ outputs \cap {"claude_comment_id", "BASE_BRANCH", "mcp_config"} = {}

\* C28: a run with neither the override token nor the workflow token ends
\* in its first step, and a run whose mode input is not a mode ends in its
\* second step, with exit code 1 and core.setFailed called; at no state of
\* such a run has a comment been created, a git command been run or an MCP
\* configuration been produced.
C28_NoCredentialOrModeEndsBeforeMutation ==
    (env.token = "none" \/ env.mode \notin {"tag", "agent"}) =>
        /\ NothingMutated
        /\ perm = "none" /\ trig = "none"
        /\ pc \in {"token", "parse", "done"}
        /\ pc = "done" =>
              /\ exitCode = 1
              /\ failed
              /\ phases = IF env.token = "none" THEN <<"token">>
                          ELSE <<"token", "parse">>

\* a run with a token, the trigger phrase and an invalid mode has ended
C28_Witness ==
    /\ env.token = "workflow"
    /\ env.mode = "bogus"
    /\ env.eventName = "issue_comment"
    /\ env.phrase
    /\ pc = "done"
    /\ exitCode = 1
    /\ "prepare_error" \in outputs

----------------------------------------------------------------------------
(* Properties of the gateway's scheduling *)

\* C29: the gateway has at most one tool invocation in progress: while a
\* create_pull_request call awaits its HTTP response it is the only call
\* that has started and not returned, and the call served last is that
\* call, so no git command of another invocation has run since it started.
C29_OneRequestAtATime ==
    /\ Cardinality(gwFlight) <= 1
    /\ gwFlight # {} =>
          /\ gwRes.tool = "create_pull_request"
          /\ ~gwRes.resolved
          /\ \A p \in gwFlight : p.id = gwCalls

----------------------------------------------------------------------------
(* Properties of the mutating git commands *)

MutatingCommands == {"fetch", "checkout", "pull", "add", "rm", "commit", "push"}

IsMutating(e) == e.op = "git" /\ e.cmd \in MutatingCommands

SameCommand(a, b) ==
    /\ a.op = b.op /\ a.cmd = b.cmd /\ a.opt = b.opt
    /\ a.ref = b.ref /\ a.path = b.path

\* the request names the path at two positions of its file list
ListedTwice(files, path) ==
    \E m, n \in 1..Len(files) :
        m < n /\ filePath(files[m]) = path /\ filePath(files[n]) = path

\* in log, the commands of one tool invocation or of one branch setup, a
\* mutating command stands a second time only after it succeeded, and only
\* as the git add / git rm of a path the request lists twice
NoRetryIn(log, files) ==
    \A i, j \in 1..Len(log) :
        (i < j /\ IsMutating(log[i]) /\ SameCommand(log[i], log[j])) =>
            /\ log[i].ok
            /\ log[i].cmd \in {"add", "rm"}
            /\ ListedTwice(files, log[i].path)

----------------------------------------------------------------------------
(* Properties of the run as a whole *)

\* C31: in a run for an issue_comment event on an issue, with write access
\* and the trigger phrase in the comment, in which every command of
\* setupBranch succeeded and the working tree is on the default branch
\* when the current branch is read, setupBranch has returned the BranchInfo
\* with baseBranch = currentBranch = the default branch and the run has
\* not exited with 1 in the branch setup.
C31_IssueCommentReachesGateway ==
    ( /\ env.eventName = "issue_comment" /\ ~env.prMarker
      /\ env.phrase /\ env.override = Unset
      /\ perm = "granted"
      /\ trace # <<>>
      /\ trace[Len(trace)].cmd = "branch"
      /\ \A i \in 1..Len(trace) : trace[i].ok
      /\ head = DefaultBranch ) =>
        /\ info = Returned(DefaultBranch, DefaultBranch)
        /\ "BASE_BRANCH" \in outputs
        /\ pc = "done" => phases[Len(phases)] # "branch"

----------------------------------------------------------------------------
(* Properties of the open pull request path *)

\* C32: for an open pull request setupBranch fetches the head ref with
\* depth 20, checks it out and never pulls; the BranchInfo it returns has
\* currentBranch = the head ref and baseBranch = the base ref, which passed
\* validateBranchName; when the base ref is rejected setupBranch has
\* returned nothing and the working tree is still on the branch the run
\* started on.
C32_OpenPrChecksOutHead ==
    (ctx.isPR /\ pr.state = "OPEN") =>
        /\ \A i \in 1..Len(trace) :
              /\ trace[i].cmd # "pull"
              /\ trace[i].cmd = "fetch" =>
                    trace[i].opt = "--depth=20" /\ trace[i].ref = pr.headRefName
              /\ trace[i].cmd = "checkout" =>
                    /\ trace[i].ref = pr.headRefName
                    /\ i > 1 /\ trace[i - 1].cmd = "fetch" /\ trace[i - 1].ok
        /\ info.returned =>
              /\ info.currentBranch = pr.headRefName
              /\ info.baseBranch = pr.baseRefName
              /\ validateBranchName(pr.baseRefName) = "ok"
        /\ (\E i \in 1..Len(trace) : trace[i].op = "validate" /\ ~trace[i].ok) =>
              /\ ~info.returned
              /\ head = DefaultBranch

----------------------------------------------------------------------------
(* Properties of parseMultilineInput *)

\* the entries of s with everything from their first '#' on removed,
\* trimmed, the empty ones left out
StrippedEntries(s) ==
    LET entries == splitEntries(s)
        cut == [i \in 1..Len(entries) |-> trim(replaceFromHash(entries[i]))]
    IN  SelectSeq(cut, LAMBDA tool : Len(tool) > 0)

\* C33: parseMultilineInput returns, in input order, the entries between
\* commas and newline runs with the text from '#' to the end of the entry
\* removed and trimmed, without the empty ones; no entry returned is empty,
\* starts or ends with whitespace, or contains a comma or a newline.
C33_EntriesSplitStrippedTrimmed ==
    mDone =>
        /\ mOut = StrippedEntries(mIn)
        /\ \A i \in 1..Len(mOut) :
              /\ mOut[i] # <<>>
              /\ trim(mOut[i]) = mOut[i]
              /\ \A k \in 1..Len(mOut[i]) :
                    mOut[i][k] \notin NewlineChars \cup {","}

----------------------------------------------------------------------------
(* Properties of parseAdditionalPermissions *)

LinesOf(s) == splitOn(trim(s), {"LF"})

Colons(l) == {i \in 1..Len(l) : l[i] = ":"}
FirstColon(l) == CHOOSE i \in Colons(l) : \A j \in Colons(l) : i <= j
\* where the value of the line ends: before its second colon, or at its end
ValueEnd(l) ==
    IF Cardinality(Colons(l)) >= 2
    THEN (CHOOSE i \in Colons(l) \ {FirstColon(l)} :
              \A j \in Colons(l) \ {FirstColon(l)} : i <= j) - 1
    ELSE Len(l)
KeyOf(l) == trim(SubSeq(l, 1, FirstColon(l) - 1))
ValueOf(l) == trim(SubSeq(l, FirstColon(l) + 1, ValueEnd(l)))

\* the line has the form key:value with a key and a value
IsEntryLine(l) == Colons(l) # {} /\ KeyOf(l) # <<>> /\ ValueOf(l) # <<>>

----------------------------------------------------------------------------
(* Properties of a run without trigger *)

\* C35: when checkTriggerAction answered false the run has ended with exit
\* code 0, without core.setFailed and without prepare_error, the output
\* contains_trigger is set, and the trigger check was its last step: no
\* human-actor check, no tracking comment, no entity data, no git command,
\* no BranchInfo and no MCP configuration.
C35_NoTriggerEndsQuietly ==
    trig = "no" =>
        /\ pc = "done"
        /\ exitCode = 0
        /\ ~failed
        /\ "prepare_error" \notin outputs
        /\ "contains_trigger" \in outputs
        /\ phases = <<"token", "parse", "perm", "trigger">>
        /\ NothingMutated

\* a run with write access and no trigger phrase has ended
C35_Witness ==
    /\ trig = "no"
    /\ perm = "granted"
    /\ ~env.phrase
    /\ pc = "done"
    /\ outputs = {"GITHUB_TOKEN", "contains_trigger"}

----------------------------------------------------------------------------
(* Properties of the tracking comment *)

\* C36: a tracking comment exists, or its creation has been started, only
\* in a run whose permission check granted, whose trigger check answered
\* true and whose human-actor check was passed, for an entity event and a
\* mode that asks for a tracking comment; a run for workflow_run,
\* workflow_dispatch or schedule has no comment and never enters
\* setupBranch.
C36_CommentOnlyAfterGates ==
    /\ (comments > 0 \/ Entered("comment")) =>
          /\ perm = "granted"
          /\ trig = "yes"
          /\ \E i, j \in 1..Len(phases) :
                i < j /\ phases[i] = "human" /\ phases[j] = "comment"
          /\ env.eventName \in EntityEvents
          /\ ctx.mode = "tag"
    /\ env.eventName \in AUTOMATION_EVENT_NAMES =>
          /\ comments = 0
          /\ ~Entered("comment")
          /\ ~Entered("fetch")
          /\ ~Entered("branch")
          /\ trace = <<>>
          /\ info = NoInfo

\* the tracking comment of an issue exists and the run went on
C36_Witness ==
    /\ env.eventName = "issues"
    /\ comments = 1
    /\ "claude_comment_id" \in outputs
    /\ Entered("fetch")
----------------------------------------------------------------------------
\* C37: a call of createInitialComment that returned an id has created
\* exactly one comment on the entity and the id is that comment's; no
\* failure inside the call leaves a second comment behind; when the call
\* throws, the run ends as failed.
C37_OneCommentPerSuccessfulCall ==
    /\ comments <= 1
    /\ commentId # 0 => comments = 1 /\ commentId = 1
    /\ (Entered("comment") /\ commentId = 0)
          => pc = "done" /\ failed

----------------------------------------------------------------------------
(* Staging and committing *)

\* the staging commands of the call served last, in the order they ran
Staged == SelectSeq(gwLog, LAMBDA e : e.cmd \in {"add", "rm"})

\* git add for commit_files, git rm for delete_files
StagingCommand == IF gwRes.tool = "commit_files" THEN "add" ELSE "rm"

\* C38: commit_files and delete_files run git commit only after every
\* listed path was staged successfully, one git add / git rm per path with
\* the path after a '--' separator; when the staging of a path fails the
\* handler stops there: no commit, an isError result, and no command that
\* would undo the stagings made before.
C38_CommitOnlyAfterAllStaged ==
    gwRes.tool \in {"commit_files", "delete_files"} =>
        LET files == gwRes.args.files
        IN  /\ Len(Staged) <= Len(files)
            /\ \A k \in 1..Len(Staged) :
                  /\ Staged[k].cmd = StagingCommand
                  /\ Staged[k].opt = "--"
                  /\ Staged[k].path = filePath(files[k])
                  /\ k < Len(Staged) => Staged[k].ok
            /\ \A i \in 1..Len(gwLog) :
                  /\ gwLog[i].cmd \in {"config", "add", "rm", "commit"}
                  /\ gwLog[i].cmd = "commit" =>
                        /\ i = Len(gwLog)
                        /\ Len(Staged) = Len(files)
                        /\ \A k \in 1..Len(Staged) : Staged[k].ok
                  /\ (gwLog[i].cmd \in {"add", "rm"} /\ ~gwLog[i].ok) =>
                        /\ i = Len(gwLog)
                        /\ gwRes.isError

\* delete_files of two paths: the first git rm succeeded, the second failed
\* and ended the call
C38_Witness ==
    /\ gwRes.tool = "delete_files"
    /\ Len(gwRes.args.files) = 2
    /\ gwRes.isError
    /\ Len(gwLog) = 2
    /\ gwLog[1].cmd = "rm" /\ gwLog[1].ok
    /\ gwLog[2].cmd = "rm" /\ ~gwLog[2].ok

----------------------------------------------------------------------------
\* C39: a push_branch call reads the current branch first; when that fails
\* the result is an error and nothing is pushed; otherwise it issues one
\* push, of the branch that was current when the call was served and of no
\* other, with -f exactly when the force argument is true (an omitted
\* argument counts as false); origin gains at most that branch.
C39_PushesCurrentBranchOnly ==
    [][(gwCalls' # gwCalls /\ gwRes'.tool = "push_branch") =>
          /\ Len(gwLog') \in {1, 2}
          /\ gwLog'[1].cmd = "rev-parse"
          /\ gwLog'[1].opt = "--abbrev-ref HEAD"
          /\ ~gwLog'[1].ok => Len(gwLog') = 1 /\ gwRes'.isError
          /\ \A i \in 1..Len(gwLog') :
                gwLog'[i].cmd = "push" =>
                    /\ i = 2
                    /\ gwLog'[1].ok
                    /\ gwLog'[i].ref = gwHead
                    /\ gwLog'[i].opt = "-f" <=> gwRes'.args.force = "true"
                    /\ gwLog'[i].opt \in {"-f", ""}
          /\ gwHead' = gwHead
          /\ gwRemote' \subseteq gwRemote \cup {gwHead}
          /\ gwRemote' # gwRemote =>
                Len(gwLog') = 2 /\ gwLog'[2].cmd = "push" /\ gwLog'[2].ok
      ]_vars

\* a push without the force argument, from a branch other than the default
\* one, that succeeded and was not forced
C39_Witness ==
    /\ gwRes.tool = "push_branch"
    /\ gwRes.args.force = "omitted"
    /\ ~gwRes.isError
    /\ gwHead # N_main
    /\ Len(gwLog) = 2
    /\ gwLog[2].cmd = "push" /\ gwLog[2].opt = "" /\ gwLog[2].ok
    /\ gwHead \in gwRemote

----------------------------------------------------------------------------
(* The commit identity and the surfacing of git failures *)

IsConfigProbe(e) == e.cmd = "config" /\ e.opt = ""
IsConfigSet(e) == e.cmd = "config" /\ e.opt = "set"

\* a step that serves a call: only commit_files touches the identity; it
\* assigns a key only right after the probe of that key failed and only
\* when the key was not configured before the call, a failed probe is
\* always followed by the assignment, and no configured key is lost
IdentityStep ==
    /\ gwIdent \subseteq gwIdent'
    /\ \A i \in 1..Len(gwLog') :
          /\ IsConfigSet(gwLog'[i]) =>
                /\ gwRes'.tool = "commit_files"
                /\ i > 1
                /\ IsConfigProbe(gwLog'[i - 1])
                /\ ~gwLog'[i - 1].ok
                /\ gwLog'[i - 1].path = gwLog'[i].path
                /\ gwLog'[i].path \notin gwIdent
                /\ gwLog'[i].ok <=> gwLog'[i].path \in gwIdent'
          /\ IsConfigProbe(gwLog'[i]) =>
                /\ gwRes'.tool = "commit_files"
                /\ gwLog'[i].ok <=> gwLog'[i].path \in gwIdent
                /\ ~gwLog'[i].ok =>
                      /\ i < Len(gwLog')
                      /\ IsConfigSet(gwLog'[i + 1])
    /\ \A k \in gwIdent' \ gwIdent :
          \E i \in 1..Len(gwLog') :
              IsConfigSet(gwLog'[i]) /\ gwLog'[i].path = k /\ gwLog'[i].ok

\* a failed git command that is not Tolerated ends the handler with an
\* error result, and commit_files answers an error only for such a command
SurfacedUnless(Tolerated(_)) ==
    /\ \A i \in 1..Len(gwLog') :
          (~gwLog'[i].ok /\ ~Tolerated(gwLog'[i])) =>
              /\ i = Len(gwLog')
              /\ gwRes'.resolved
              /\ gwRes'.isError
    /\ (gwRes'.tool = "commit_files" /\ gwRes'.isError) =>
          /\ gwLog' # <<>>
          /\ ~gwLog'[Len(gwLog')].ok
          /\ ~Tolerated(gwLog'[Len(gwLog')])

\* C40 (as claimed): commit_files sets user.email / user.name only when the
\* probe of that key fails and never overwrites a configured identity; a
\* failed config probe is not a failure of the call, and a non-zero exit
\* of any other git command in a handler is surfaced as an error result.
C40_OnlyConfigProbeTolerated ==
    [][gwCalls' # gwCalls => IdentityStep /\ SurfacedUnless(IsConfigProbe)]_vars

\* C40 (amended): as above, where the git commands whose non-zero exit is
\* not surfaced are the config probes of commit_files and the two lookups
\* of checkout_branch (rev-parse --verify and the fetch by name); the
\* non-zero exit of every other git command is surfaced as an error result.
C40_ProbesToleratedOthersSurfaced ==
    [][gwCalls' # gwCalls => IdentityStep /\ SurfacedUnless(IsProbe)]_vars

\* commit_files found user.email configured and user.name not: it probed
\* both, set user.name alone, and the commit succeeded
C40_Witness ==
    /\ gwRes.tool = "commit_files"
    /\ ~gwRes.isError
    /\ gwIdent = GitIdentity
    /\ Len(gwLog) >= 4
    /\ IsConfigProbe(gwLog[1]) /\ gwLog[1].path = "user.email" /\ gwLog[1].ok
    /\ IsConfigProbe(gwLog[2]) /\ gwLog[2].path = "user.name" /\ ~gwLog[2].ok
    /\ IsConfigSet(gwLog[3]) /\ gwLog[3].path = "user.name" /\ gwLog[3].ok
    /\ gwLog[Len(gwLog)].cmd = "commit" /\ gwLog[Len(gwLog)].ok

====
